---------------------------- MODULE Spec2Model ----------------------------
(***************************************************************************)
(* Model of poolpOrg/filter-reputation.                                    *)
(*                                                                         *)
(* The repository holds two alternative programs (both `package main`):    *)
(*   variant A  src/unnamed/part_000      history store ipScoring, guarded *)
(*              by ipScoringMutex, a background sweep goroutine, and the   *)
(*              scorers scoreTransaction / scoreSession.                   *)
(*   variant B  src/filter-reputation.go  the Reputation trust table and   *)
(*              the applyPenalty / applyReward adjuster.                   *)
(*                                                                         *)
(* float64 values are IEEE 754 binary64 values and every operation on      *)
(* them rounds its exact result to the nearest value, ties to even: each   *)
(* multiplication and each addition rounds on its own, as the amd64 build  *)
(* computes them (no fused multiply-add).  Time is counted in whole days.  *)
(***************************************************************************)
EXTENDS Integers, Sequences, FiniteSets, TLC

(***************************************************************************)
(* Bounds of the model.                                                    *)
(***************************************************************************)
\* events other than connect and disconnect the mail server sends the session
\* of SpecSession
MaxEvents == 4
\* events other than connect and disconnect the mail server sends, to one
\* session or the other, in Spec and in SpecSweep
MaxStoreEvents == 1
\* recipients of one kind (accepted, temp-failed, perm-failed) of a transaction
MaxRcpt == 3
\* events other than connect and disconnect the mail server sends, to one
\* session or the other, in SpecTable
MaxTableEvents == 1
\* events other than connect and disconnect the mail server sends the session
\* of SpecTrust
MaxTrustEvents == 2
\* trust values k/GridSteps, k in 0..GridSteps, handed to the adjuster
GridSteps == 40
\* days the clock advances
MaxTicks == 1

(***************************************************************************)
(* Natural numbers of any size, for the 53-bit significands of float64:    *)
(* sequences of limbs below Limb, least significant first, no leading zero *)
(* limb (0 is the empty sequence).                                         *)
(***************************************************************************)
LimbBits == 14
Limb     == 2^LimbBits

IntMin(a, b) == IF a < b THEN a ELSE b

RECURSIVE BTrim(_)
BTrim(a) ==
    IF a = <<>> \/ a[Len(a)] # 0 THEN a ELSE BTrim(SubSeq(a, 1, Len(a) - 1))

BLimb(a, i) == IF i <= Len(a) THEN a[i] ELSE 0

RECURSIVE BFromInt(_)
BFromInt(k) == IF k = 0 THEN <<>> ELSE <<k % Limb>> \o BFromInt(k \div Limb)

RECURSIVE BToInt(_)
BToInt(a) == IF a = <<>> THEN 0 ELSE a[1] + Limb * BToInt(Tail(a))

\* a + b + carry, from limb i on
RECURSIVE BAddFrom(_, _, _, _)
BAddFrom(a, b, i, carry) ==
    IF i > Len(a) /\ i > Len(b)
    THEN IF carry = 0 THEN <<>> ELSE <<carry>>
    ELSE <<(BLimb(a, i) + BLimb(b, i) + carry) % Limb>>
         \o BAddFrom(a, b, i + 1, (BLimb(a, i) + BLimb(b, i) + carry) \div Limb)

BAdd(a, b) == BAddFrom(a, b, 1, 0)

\* a - b - borrow from limb i on, for a >= b
RECURSIVE BSubFrom(_, _, _, _)
BSubFrom(a, b, i, borrow) ==
    IF i > Len(a) THEN <<>>
    ELSE IF a[i] - BLimb(b, i) - borrow < 0
         THEN <<a[i] - BLimb(b, i) - borrow + Limb>> \o BSubFrom(a, b, i + 1, 1)
         ELSE <<a[i] - BLimb(b, i) - borrow>> \o BSubFrom(a, b, i + 1, 0)

BSub(a, b) == BTrim(BSubFrom(a, b, 1, 0))

\* -1, 0 or 1 as a < b, a = b or a > b
RECURSIVE BCmpAt(_, _, _)
BCmpAt(a, b, i) ==
    IF i = 0 THEN 0
    ELSE IF a[i] < b[i] THEN -1
    ELSE IF a[i] > b[i] THEN 1
    ELSE BCmpAt(a, b, i - 1)

BCmp(a, b) ==
    IF Len(a) < Len(b) THEN -1
    ELSE IF Len(a) > Len(b) THEN 1
    ELSE BCmpAt(a, b, Len(a))

\* a * k + carry from limb i on, for 0 < k <= Limb
RECURSIVE BMulSmallFrom(_, _, _, _)
BMulSmallFrom(a, k, i, carry) ==
    IF i > Len(a) THEN (IF carry = 0 THEN <<>> ELSE <<carry>>)
    ELSE <<(a[i] * k + carry) % Limb>>
         \o BMulSmallFrom(a, k, i + 1, (a[i] * k + carry) \div Limb)

BMulSmall(a, k) == IF k = 0 THEN <<>> ELSE BMulSmallFrom(a, k, 1, 0)

\* a * Limb
BShlLimb(a) == IF a = <<>> THEN a ELSE <<0>> \o a

\* a * (the limbs of b from the i-th on)
RECURSIVE BMulFrom(_, _, _)
BMulFrom(a, b, i) ==
    IF i > Len(b) THEN <<>>
    ELSE BAdd(BMulSmall(a, b[i]), BShlLimb(BMulFrom(a, b, i + 1)))

BMul(a, b) == BMulFrom(a, b, 1)

\* the quotient of rem * Limb^i + (the i low limbs of a) by n, for
\* 0 < n <= 4 * Limb and rem < n; it may have leading zero limbs
RECURSIVE BQuotAt(_, _, _, _)
BQuotAt(a, n, i, rem) ==
    IF i = 0 THEN <<>>
    ELSE BQuotAt(a, n, i - 1, (rem * Limb + a[i]) % n)
         \o <<(rem * Limb + a[i]) \div n>>

\* the remainder of the same division
RECURSIVE BRemAt(_, _, _, _)
BRemAt(a, n, i, rem) ==
    IF i = 0 THEN rem ELSE BRemAt(a, n, i - 1, (rem * Limb + a[i]) % n)

\* quotient and remainder of a by n, for 0 < n <= 4 * Limb
BDivSmall(a, n) ==
    [q |-> BTrim(BQuotAt(a, n, Len(a), 0)), r |-> BRemAt(a, n, Len(a), 0)]

\* a * 2^k
RECURSIVE BShl(_, _)
BShl(a, k) ==
    IF k >= LimbBits THEN BShlLimb(BShl(a, k - LimbBits))
    ELSE BMulSmall(a, 2^k)

\* a \div 2^k
BShr(a, k) ==
    IF k \div LimbBits >= Len(a) THEN <<>>
    ELSE BDivSmall(SubSeq(a, k \div LimbBits + 1, Len(a)), 2^(k % LimbBits)).q

RECURSIVE IntBitLen(_)
IntBitLen(k) == IF k = 0 THEN 0 ELSE 1 + IntBitLen(k \div 2)

\* the number of bits of a
BBitLen(a) ==
    IF a = <<>> THEN 0 ELSE LimbBits * (Len(a) - 1) + IntBitLen(a[Len(a)])

\* bit k of a is set (bit 0 is the lowest)
BBit(a, k) == (BLimb(a, k \div LimbBits + 1) \div 2^(k % LimbBits)) % 2 = 1

BOdd(a) == BBit(a, 0)

\* the k lowest bits of a are all 0
RECURSIVE BLowZero(_, _)
BLowZero(a, k) ==
    IF k <= 0 \/ a = <<>> THEN TRUE
    ELSE IF k >= LimbBits THEN a[1] = 0 /\ BLowZero(Tail(a), k - LimbBits)
    ELSE a[1] % 2^k = 0

(***************************************************************************)
(* float64.  A finite value is [neg, exp, mant], standing for              *)
(* (-1)^neg * mant * 2^exp with mant of exactly SignificandBits bits; 0.0  *)
(* is [neg |-> FALSE, exp |-> 0, mant |-> <<>>].  Every operation computes *)
(* the exact result and rounds it to the nearest value, ties to even, as   *)
(* IEEE 754 does.  The values the program computes are far from overflow   *)
(* and from the subnormal range, and it never produces -0, an infinity or  *)
(* a NaN.                                                                  *)
(***************************************************************************)
SignificandBits == 53

Zero == [neg |-> FALSE, exp |-> 0, mant |-> <<>>]

\* (-1)^neg * q * 2^e for q of SignificandBits bits, or of one more when the
\* rounding carried out of the top bit (q is 2^SignificandBits then)
F64Pack(neg, q, e) ==
    IF BBitLen(q) > SignificandBits
    THEN [neg |-> neg, exp |-> e + 1, mant |-> BShr(q, 1)]
    ELSE [neg |-> neg, exp |-> e, mant |-> q]

\* q * 2^e was cut off above the bit `guard`, and `low` says that something
\* other than 0 was cut off below that bit: to the nearest, ties to even
F64RoundUp(neg, q, e, guard, low) ==
    F64Pack(neg, IF guard /\ (low \/ BOdd(q)) THEN BAdd(q, <<1>>) ELSE q, e)

\* F64Round for m of len > 0 bits
F64RoundLen(neg, m, e, sticky, len) ==
    IF len <= SignificandBits
    THEN [neg  |-> neg,
          exp  |-> e - (SignificandBits - len),
          mant |-> BShl(m, SignificandBits - len)]
    ELSE F64RoundUp(neg, BShr(m, len - SignificandBits),
                    e + (len - SignificandBits),
                    BBit(m, len - SignificandBits - 1),
                    sticky \/ ~BLowZero(m, len - SignificandBits - 1))

\* the float64 nearest to (-1)^neg * m * 2^e, or to a value just above it in
\* magnitude when sticky (then m has more than SignificandBits + 1 bits)
F64Round(neg, m, e, sticky) ==
    IF m = <<>> THEN Zero ELSE F64RoundLen(neg, m, e, sticky, BBitLen(m))

\* the float64 nearest to (-1)^xn * X * 2^e + (-1)^yn * Y * 2^e
F64SumAligned(xn, X, yn, Y, e) ==
    F64Round(IF xn = yn \/ BCmp(X, Y) >= 0 THEN xn ELSE yn,
             IF xn = yn THEN BAdd(X, Y)
             ELSE IF BCmp(X, Y) >= 0 THEN BSub(X, Y)
             ELSE BSub(Y, X),
             e, FALSE)

\* the float64 nearest to (-1)^xn * xm * 2^xe + (-1)^yn * ym * 2^ye, of two
\* float64 values
F64Sum(xn, xm, xe, yn, ym, ye) ==
    IF ym = <<>> THEN [neg |-> xn /\ xm # <<>>, exp |-> xe, mant |-> xm]
    ELSE IF xm = <<>> THEN [neg |-> yn, exp |-> ye, mant |-> ym]
    ELSE F64SumAligned(xn, BShl(xm, xe - IntMin(xe, ye)),
                       yn, BShl(ym, ye - IntMin(xe, ye)), IntMin(xe, ye))

\* float64(k) of an int k
Float(k) == F64Round(k < 0, BFromInt(IF k < 0 THEN -k ELSE k), 0, FALSE)

\* the float64 nearest to (-1)^neg * (t.q + f) * 2^e, where 0 <= f < 1 and
\* f = 0 just when the remainder t.r is 0
F64Quotient(neg, t, e) == F64Round(neg, t.q, e, t.r # 0)

\* the float64 a constant of value n / d is converted to (d > 0)
Rat(n, d) ==
    F64Quotient(n < 0,
                BDivSmall(BShl(BFromInt(IF n < 0 THEN -n ELSE n), 6 * LimbBits), d),
                -(6 * LimbBits))

\* x + y, x - y, x * y
RAdd(x, y) == F64Sum(x.neg, x.mant, x.exp, y.neg, y.mant, y.exp)
RSub(x, y) == F64Sum(x.neg, x.mant, x.exp, ~y.neg, y.mant, y.exp)
RMul(x, y) ==
    F64Round(x.neg # y.neg, BMul(x.mant, y.mant), x.exp + y.exp, FALSE)
\* x / float64(k), 0 < k <= 4 * Limb
RDivInt(x, k) ==
    F64Quotient(x.neg, BDivSmall(BShl(x.mant, 3 * LimbBits), k),
                x.exp - 3 * LimbBits)

\* -1, 0 or 1 as x < y, x = y or x > y
F64Sign(x) == IF x.mant = <<>> THEN 0 ELSE IF x.neg THEN -1 ELSE 1
F64Cmp(x, y) ==
    IF F64Sign(x) # F64Sign(y) THEN (IF F64Sign(x) < F64Sign(y) THEN -1 ELSE 1)
    ELSE IF F64Sign(x) = 0 THEN 0
    ELSE F64Sign(x) * (IF x.exp < y.exp THEN -1
                       ELSE IF x.exp > y.exp THEN 1
                       ELSE BCmp(x.mant, y.mant))

RLt(x, y) == F64Cmp(x, y) < 0
RLe(x, y) == F64Cmp(x, y) <= 0

One  == Float(1)
Half == Rat(1, 2)

\* math.Max, math.Min
MathMax(x, y) == IF RLt(x, y) THEN y ELSE x
MathMin(x, y) == IF RLt(y, x) THEN y ELSE x

Abs(k) == IF k < 0 THEN -k ELSE k

\* p * 2^e to the nearest natural number
BScale(p, e) ==
    IF e >= 0 THEN BShl(p, e)
    ELSE BShr(BAdd(p, BShl(<<1>>, -e - 1)), -e)

\* x in millionths, rounded to the nearest (for |x| < 2000)
Micros(x) ==
    IF x.mant = <<>> THEN 0
    ELSE (IF x.neg THEN -1 ELSE 1)
         * BToInt(BScale(BMul(x.mant, BFromInt(1000000)), x.exp))

(***************************************************************************)
(* Variant A: the scorers (src/unnamed/part_000).                          *)
(***************************************************************************)
validSenderWeight         == Rat(4, 10)
dataWeight                == Rat(3, 10)
commitWeight              == Rat(3, 10)
successfulRecipientWeight == Rat(1, 10)
failedRecipientPenalty    == Rat(2, 10)

authSuccessWeight  == Rat(1, 10)
authFailurePenalty == Rat(1, 10)
tlsWeight          == Rat(2, 10)
rdnsWeightA        == Rat(1, 10)
fcrdnsWeight       == Rat(1, 10)
resetPenalty       == Rat(5, 100)

\* the zero time.Time
ZeroTime == 0

\* &Transaction{beginTime: timestamp}
NewTransaction(timestamp) ==
    [beginTime |-> timestamp, endTime |-> ZeroTime, mailFromOK |-> FALSE,
     rcptToOK |-> 0, rcptToTempfail |-> 0, rcptToPermfail |-> 0,
     sawData |-> FALSE, committed |-> FALSE]

\* `if cond { baseScore += weight }`
AddIf(cond, baseScore, weight) ==
    IF cond THEN RAdd(baseScore, weight) ELSE baseScore

\* scoreTransaction before its final clamp
TransactionBaseScore(tx) ==
    LET s1 == AddIf(tx.mailFromOK, Zero, validSenderWeight)
        s2 == AddIf(tx.sawData, s1, dataWeight)
        s3 == AddIf(tx.committed, s2, commitWeight)
        s4 == RAdd(s3, RMul(Float(tx.rcptToOK), successfulRecipientWeight))
    IN  RSub(s4, RMul(Float(tx.rcptToTempfail + tx.rcptToPermfail),
                      failedRecipientPenalty))

\* mutant: the final clamp is dropped
scoreTransactionNoClamp(tx) == TransactionBaseScore(tx)

scoreTransaction(tx) ==
    MathMax(Zero, MathMin(One, TransactionBaseScore(tx)))

\* the loop `for _, tx := range session.transactions { transactionScore += ... }`
RECURSIVE SumTransactionScores(_)
SumTransactionScores(txs) ==
    IF txs = <<>> THEN Zero
    ELSE RAdd(SumTransactionScores(SubSeq(txs, 1, Len(txs) - 1)),
              scoreTransaction(txs[Len(txs)]))

\* scoreSession before its final clamp
SessionBaseScore(session) ==
    LET totalTransactions == Len(session.transactions)
        b0 == IF totalTransactions > 0
              THEN RDivInt(SumTransactionScores(session.transactions),
                           totalTransactions)
              ELSE Zero
        b1 == RAdd(b0, RMul(Float(session.authok), authSuccessWeight))
        b2 == RSub(b1, RMul(Float(session.authfail), authFailurePenalty))
        b3 == AddIf(session.cmdTLS, b2, tlsWeight)
        b4 == AddIf(session.rdns, b3, rdnsWeightA)
        b5 == AddIf(session.fcrdns, b4, fcrdnsWeight)
    IN  RSub(b5, RMul(Float(session.nResets), resetPenalty))

\* mutant: only the upper clamp is kept
scoreSessionNoFloor(session) == MathMin(One, SessionBaseScore(session))

scoreSession(session) ==
    MathMax(Zero, MathMin(One, SessionBaseScore(session)))

\* mutant: the summary is stamped with the time of the disconnect event
summarizeSessionAtDisconnect(session, timeNow) ==
    LET txs == session.transactions
        idx == DOMAIN txs
    IN  [Timestamp     |-> session.disconnectTime,
         Score         |-> scoreSession(session),
         AuthFailures  |-> session.authfail,
         AuthSuccesses |-> session.authok,
         Resets        |-> session.nResets,
         RcptCount     |-> IF txs = <<>> THEN 0
                           ELSE LET RECURSIVE rc(_)
                                    rc(i) == IF i = 0 THEN 0
                                             ELSE rc(i - 1) + txs[i].rcptToOK
                                                  + txs[i].rcptToTempfail
                                                  + txs[i].rcptToPermfail
                                IN  rc(Len(txs)),
         DataCount     |-> Cardinality({i \in idx : txs[i].sawData}),
         CommitCount   |-> Cardinality({i \in idx : txs[i].committed}),
         RollbackCount |-> Cardinality({i \in idx : ~txs[i].committed})]


\* time.Time values are days; time.Now() reads the clock `now`
\* summarizeSession(session), with the value time.Now() returns
summarizeSession(session, timeNow) ==
    LET txs == session.transactions
        idx == DOMAIN txs
    IN  [Timestamp     |-> timeNow,
         Score         |-> scoreSession(session),
         AuthFailures  |-> session.authfail,
         AuthSuccesses |-> session.authok,
         Resets        |-> session.nResets,
         RcptCount     |-> IF txs = <<>> THEN 0
                           ELSE LET RECURSIVE rc(_)
                                    rc(i) == IF i = 0 THEN 0
                                             ELSE rc(i - 1) + txs[i].rcptToOK
                                                  + txs[i].rcptToTempfail
                                                  + txs[i].rcptToPermfail
                                IN  rc(Len(txs)),
         DataCount     |-> Cardinality({i \in idx : txs[i].sawData}),
         CommitCount   |-> Cardinality({i \in idx : txs[i].committed}),
         RollbackCount |-> Cardinality({i \in idx : ~txs[i].committed})]

\* Scoring{}
ZeroScoring ==
    [Timestamp |-> ZeroTime, Score |-> Zero, AuthFailures |-> 0,
     AuthSuccesses |-> 0, Resets |-> 0, RcptCount |-> 0, DataCount |-> 0,
     CommitCount |-> 0, RollbackCount |-> 0]

\* aggregate += score, field by field
AddScoring(a, s) ==
    [Timestamp     |-> ZeroTime,
     Score         |-> RAdd(a.Score, s.Score),
     AuthFailures  |-> a.AuthFailures + s.AuthFailures,
     AuthSuccesses |-> a.AuthSuccesses + s.AuthSuccesses,
     Resets        |-> a.Resets + s.Resets,
     RcptCount     |-> a.RcptCount + s.RcptCount,
     DataCount     |-> a.DataCount + s.DataCount,
     CommitCount   |-> a.CommitCount + s.CommitCount,
     RollbackCount |-> a.RollbackCount + s.RollbackCount]

\* the loop of aggregateScoring over scores[lo..hi], entered with the sums
\* in `aggregate`: the summaries are added one after the other, in the order
\* of the slice.  (The range is walked in two parts, the second entered with
\* the sums the first has left; the test of `first` makes TLC finish the
\* first part before it starts the second, which keeps the evaluation of a
\* hundred summaries shallow.)
RECURSIVE AggregateRange(_, _, _, _)
AggregateRange(aggregate, scores, lo, hi) ==
    IF lo > hi THEN aggregate
    ELSE IF lo = hi THEN AddScoring(aggregate, scores[lo])
    ELSE LET mid   == (lo + hi) \div 2
             first == AggregateRange(aggregate, scores, lo, mid)
         IN  IF first = first
             THEN AggregateRange(first, scores, mid + 1, hi)
             ELSE first

\* aggregate := Scoring{} and the loop over all of scores
AggregateSums(scores) == AggregateRange(ZeroScoring, scores, 1, Len(scores))

\* mutant: the score is summed but not averaged
aggregateScoringNoAverage(scores) ==
    IF Len(scores) = 0 THEN ZeroScoring ELSE AggregateSums(scores)

aggregateScoring(scores) ==
    IF Len(scores) = 0 THEN ZeroScoring
    ELSE LET totalScores == Len(scores)
             aggregate == AggregateSums(scores)
         IN  [aggregate EXCEPT !.Score = RDivInt(aggregate.Score, totalScores)]

MinHistory == 5
MaxHistory == 100
RetentionDays == 5

\* mutant: the floor is tested with <= instead of <
ConnectScoreOffByOne(exists, list) ==
    IF ~exists \/ Len(list) <= MinHistory THEN Half
    ELSE aggregateScoring(list).Score

\* linkConnectCb, lines 261-265: the prior from the looked-up history
ConnectScore(exists, list) ==
    IF ~exists \/ Len(list) < MinHistory THEN Half
    ELSE aggregateScoring(list).Score

\* mutant: the oldest 100 are kept
SweepTrimOldest(scoring) == SubSeq(scoring, 1, MaxHistory)

\* mutant: the slice starts at the end and keeps nothing
SweepTrimNone(scoring) == SubSeq(scoring, Len(scoring) + 1, Len(scoring))

\* mutant: the slice starts one summary early and keeps 101
SweepTrimOneMore(scoring) ==
    SubSeq(scoring, Len(scoring) - MaxHistory, Len(scoring))

\* scoring[len(scoring)-100:]
SweepTrim(scoring) ==
    SubSeq(scoring, Len(scoring) - MaxHistory + 1, Len(scoring))

\* mutant: a summary exactly five days old is expired too
SweepExpiredInclusive(scoring, timeNow) ==
    scoring[Len(scoring)].Timestamp + RetentionDays <= timeNow

\* scoring[len(scoring)-1].Timestamp.Add(5 * 24 * time.Hour).Before(time.Now())
SweepExpired(scoring, timeNow) ==
    scoring[Len(scoring)].Timestamp + RetentionDays < timeNow

(***************************************************************************)
(* Variant B: the adjuster (src/filter-reputation.go).                     *)
(***************************************************************************)
basePenalty == Rat(1, 10)
baseReward  == Rat(5, 100)

degradationFactors ==
    [t \in {"IP", "rDNS", "heloname", "mailFrom", "mailDomain", "recipient"} |->
        CASE t = "IP"         -> Rat(10, 10)
          [] t = "rDNS"       -> Rat(8, 10)
          [] t = "heloname"   -> Rat(6, 10)
          [] t = "mailFrom"   -> Rat(4, 10)
          [] t = "mailDomain" -> Rat(2, 10)
          [] t = "recipient"  -> Rat(5, 10)]

\* m[key] of a map[string]float64: 0.0 for a key the map does not hold
FloatAt(m, key) == IF key \in DOMAIN m THEN m[key] ELSE Zero

\* degradationFactors[resourceType]
DegradationFactor(resourceType) == FloatAt(degradationFactors, resourceType)

ipWeight       == Rat(5, 10)
rdnsWeight     == Rat(3, 10)
helonameWeight == Rat(2, 10)

clamp(value, min, max) ==
    IF RLt(value, min) THEN min
    ELSE IF RLt(max, value) THEN max
    ELSE value

\* mutant: the result is not clamped
applyPenaltyNoClamp(resourceType, reputationScore) ==
    RSub(reputationScore, RMul(basePenalty, DegradationFactor(resourceType)))

applyPenalty(resourceType, reputationScore) ==
    clamp(RSub(reputationScore,
               RMul(basePenalty, DegradationFactor(resourceType))), Zero, One)

\* mutant: the result is not clamped
applyRewardNoClamp(resourceType, reputationScore) ==
    RAdd(reputationScore, RMul(baseReward, DegradationFactor(resourceType)))

applyReward(resourceType, reputationScore) ==
    clamp(RAdd(reputationScore,
               RMul(baseReward, DegradationFactor(resourceType))), Zero, One)

(***************************************************************************)
(* Variant A: state.                                                       *)
(***************************************************************************)
\* the connections, one worker each, and the sweep goroutine
Sessions == {"s1", "s2"}
Sweeper  == "sweep"
Free     == "free"

\* net.IP values: the 4-byte and the 16-byte form of one IPv4 address, and
\* an IPv6 address; NilIP is the nil net.IP of a zeroed SessionData
NilIP == [form |-> 0, host |-> ""]
IPs == {[form |-> 4,  host |-> "192.0.2.1"],
        [form |-> 16, host |-> "192.0.2.1"],
        [form |-> 16, host |-> "2001:db8::2"]}

\* net.IP.String(): both forms of an IPv4 address print as the dotted quad
IPString(ip) == IF ip.form = 0 THEN "<nil>" ELSE ip.host

\* &SessionData{} of the session allocator
ZeroSession ==
    [skip |-> FALSE, connectTime |-> ZeroTime, disconnectTime |-> ZeroTime,
     addr |-> NilIP, rdns |-> FALSE, fcrdns |-> FALSE,
     cmdHelo |-> FALSE, cmdEhlo |-> FALSE, heloname |-> "",
     cmdAuth |-> FALSE, authok |-> 0, authfail |-> 0,
     cmdTLS |-> FALSE, tlsString |-> "", nResets |-> 0,
     transactions |-> <<>>]

\* the day the model starts on: late enough for a history to be stale
StartDay == 2 * RetentionDays

VARIABLES
    ipScoring,       \* map[string][]Scoring
    ipScoringMutex,  \* who holds the mutex: Free, a session or Sweeper
    sess,            \* session -> SessionData
    pc,              \* session -> position of its worker
    scorings,        \* session -> linkConnectCb's locals `scorings, exists`
    score,           \* session -> the score a handler last computed for its log line
    summary,         \* session -> the Scoring linkDisconnectCb is appending
    sweepPc,         \* position of the sweep goroutine
    sweepTodo,       \* keys the sweep's range loop has still to produce
    sweepIp,         \* the sweep loop's `ip`
    sweepScoring,    \* the sweep loop's `scoring`
    sweepNow,        \* the time.Now() the sweep last compared against
    now,             \* the clock, in days
    delivered,       \* session -> events delivered, connect and disconnect apart
    quota,           \* events the mail server sends in all
    crashed,         \* a handler panicked: the process is gone
    input,           \* the argument a pure function is applied to
    output           \* what it returned

varsA == <<ipScoring, ipScoringMutex, sess, pc, scorings, score, summary,
           sweepPc, sweepTodo, sweepIp, sweepScoring, sweepNow, now,
           delivered, quota, crashed>>

pureVars == <<input, output>>

\* variant B (src/filter-reputation.go)
VARIABLES
    reputation,      \* the *Reputation: its maps ipAddress, rdns, hostname
    sessB,           \* session -> SessionData
    pcB,             \* session -> position of its worker
    localsB,         \* session -> the event its worker was last handed and
                     \* the locals of the handler
    deliveredB,      \* session -> events delivered, connect and disconnect apart
    quotaB,          \* events the mail server sends in all
    crashedB         \* a handler panicked or the runtime stopped the process

varsB == <<reputation, sessB, pcB, localsB, deliveredB, quotaB, crashedB>>

\* what the steps of variant A leave alone
notA == <<pureVars, varsB>>
\* what the steps of variant B leave alone
notB == <<pureVars, varsA>>
\* what the application of a pure function leaves alone
notPure == <<varsA, varsB>>

vars == <<varsA, varsB, pureVars>>

sessionVars == <<sess, pc, scorings, score, summary, delivered>>
sweepVars   == <<sweepPc, sweepTodo, sweepIp, sweepScoring, sweepNow>>

\* m[k] = v on a Go map
MapPut(m, k, v) == [j \in DOMAIN m \cup {k} |-> IF j = k THEN v ELSE m[j]]
\* delete(m, k)
MapDelete(m, k) == [j \in DOMAIN m \ {k} |-> m[j]]
\* m[k] of a map of slices: nil when the key is missing
MapGet(m, k) == IF k \in DOMAIN m THEN m[k] ELSE <<>>
EmptyMap == [j \in {} |-> <<>>]

NoScorings == [exists |-> FALSE, list |-> <<>>]

(***************************************************************************)
(* Variant A: linkConnectCb, step by step.                                 *)
(***************************************************************************)
\* lines 244-254: the type assertion and the session's fields
linkConnectCb(s, timestamp, rdns, fcrdns, src) ==
    /\ ~crashed
    /\ pc[s] = "new"
    /\ IF src.net # "tcp"
       THEN /\ sess' = [sess EXCEPT ![s].skip = TRUE]
            /\ pc' = [pc EXCEPT ![s] = "idle"]
       ELSE /\ sess' = [sess EXCEPT ![s].transactions = <<>>,
                                    ![s].connectTime = timestamp,
                                    ![s].addr = src.ip,
                                    ![s].rdns = (rdns # "<unknown>"),
                                    ![s].fcrdns = (fcrdns = "ok" \/ fcrdns = "pass")]
            /\ pc' = [pc EXCEPT ![s] = "c_lock"]
    /\ UNCHANGED <<ipScoring, ipScoringMutex, scorings, score, summary,
                   delivered, quota, crashed, now>>
    /\ UNCHANGED sweepVars
    /\ UNCHANGED notA

\* line 258: ipScoringMutex.Lock()
ConnectLock(s) ==
    /\ ~crashed
    /\ pc[s] = "c_lock"
    /\ ipScoringMutex = Free
    /\ ipScoringMutex' = s
    /\ pc' = [pc EXCEPT ![s] = "c_read"]
    /\ UNCHANGED <<ipScoring, sess, scorings, score, summary, delivered,
                   quota, crashed, now>>
    /\ UNCHANGED sweepVars
    /\ UNCHANGED notA

\* line 259: scorings, exists := ipScoring[addr.String()]
ConnectRead(s) ==
    /\ ~crashed
    /\ pc[s] = "c_read"
    /\ LET key == IPString(sess[s].addr)
       IN  scorings' = [scorings EXCEPT ![s] =
                           [exists |-> key \in DOMAIN ipScoring,
                            list   |-> MapGet(ipScoring, key)]]
    /\ pc' = [pc EXCEPT ![s] = "c_unlock"]
    /\ UNCHANGED <<ipScoring, ipScoringMutex, sess, score, summary,
                   delivered, quota, crashed, now>>
    /\ UNCHANGED sweepVars
    /\ UNCHANGED notA

\* mutant: the lock is kept across the aggregation
ConnectUnlockLate(s) ==
    /\ ~crashed
    /\ pc[s] = "c_unlock"
    /\ pc' = [pc EXCEPT ![s] = "c_score"]
    /\ UNCHANGED <<ipScoring, ipScoringMutex, sess, scorings, score, summary,
                   delivered, quota, crashed, now>>
    /\ UNCHANGED sweepVars
    /\ UNCHANGED notA

\* line 260: ipScoringMutex.Unlock()
ConnectUnlock(s) ==
    /\ ~crashed
    /\ pc[s] = "c_unlock"
    /\ ipScoringMutex' = Free
    /\ pc' = [pc EXCEPT ![s] = "c_score"]
    /\ UNCHANGED <<ipScoring, sess, scorings, score, summary, delivered,
                   quota, crashed, now>>
    /\ UNCHANGED sweepVars
    /\ UNCHANGED notA

\* lines 261-265: the prior, computed from the locals after the unlock
ConnectAggregate(s) ==
    /\ ~crashed
    /\ pc[s] = "c_score"
    /\ score' = [score EXCEPT ![s] =
                    ConnectScore(scorings[s].exists, scorings[s].list)]
    /\ pc' = [pc EXCEPT ![s] = "c_log"]
    /\ UNCHANGED <<ipScoring, ipScoringMutex, sess, scorings, summary,
                   delivered, quota, crashed, now>>
    /\ UNCHANGED sweepVars
    /\ UNCHANGED notA

\* line 266: the log line; the handler returns and its locals are gone
ConnectLog(s) ==
    /\ ~crashed
    /\ pc[s] = "c_log"
    /\ score' = [score EXCEPT ![s] = Zero]
    /\ scorings' = [scorings EXCEPT ![s] = NoScorings]
    /\ pc' = [pc EXCEPT ![s] = "idle"]
    /\ UNCHANGED <<ipScoring, ipScoringMutex, sess, summary, delivered,
                   quota, crashed, now>>
    /\ UNCHANGED sweepVars
    /\ UNCHANGED notA

(***************************************************************************)
(* Variant A: the handlers of the events other than connect and            *)
(* disconnect.  Each runs on the session's own worker and touches only its *)
(* SessionData; none tests that the session has seen its link-connect.     *)
(***************************************************************************)
\* the session's worker is between two handlers, before ("new") or after
\* ("idle") its link-connect
Waiting(s) == pc[s] \in {"new", "idle"}

\* the events the mail server has sent so far, over all sessions
Sent(count) == count["s1"] + count["s2"]

\* the mail server delivers one more event to session s
Deliver(s) ==
    /\ ~crashed
    /\ Waiting(s)
    /\ Sent(delivered) < quota
    /\ delivered' = [delivered EXCEPT ![s] = @ + 1]
    /\ UNCHANGED <<ipScoring, ipScoringMutex, pc, scorings, summary, quota, now>>
    /\ UNCHANGED sweepVars
    /\ UNCHANGED notA

\* transactions[len(transactions)-1] panics on a session without transaction
NoTransaction(s) == Len(sess[s].transactions) = 0
LastTx(s) == sess[s].transactions[Len(sess[s].transactions)]
SetLastTx(s, tx) ==
    [sess EXCEPT ![s].transactions[Len(sess[s].transactions)] = tx]

linkIdentifyCb(s, method, hostname) ==
    /\ Deliver(s)
    /\ sess' = IF sess[s].skip THEN sess
               ELSE [sess EXCEPT
                       ![s].cmdHelo = IF method = "HELO" THEN TRUE ELSE @,
                       ![s].cmdEhlo = IF method = "EHLO" THEN TRUE ELSE @,
                       ![s].heloname = hostname]
    /\ UNCHANGED <<score, crashed>>

linkAuthCb(s, result) ==
    /\ Deliver(s)
    /\ sess' = IF sess[s].skip THEN sess
               ELSE [sess EXCEPT
                       ![s].cmdAuth = TRUE,
                       ![s].authok = IF result = "ok" THEN @ + 1 ELSE @,
                       ![s].authfail = IF result = "ok" THEN @ ELSE @ + 1]
    /\ UNCHANGED <<score, crashed>>

linkTLSCb(s, tlsString) ==
    /\ Deliver(s)
    /\ sess' = IF sess[s].skip THEN sess
               ELSE [sess EXCEPT ![s].cmdTLS = TRUE,
                                 ![s].tlsString = tlsString]
    /\ UNCHANGED <<score, crashed>>

txResetCb(s) ==
    /\ Deliver(s)
    /\ sess' = IF sess[s].skip THEN sess
               ELSE [sess EXCEPT ![s].nResets = @ + 1]
    /\ UNCHANGED <<score, crashed>>

txBeginCb(s, timestamp) ==
    /\ Deliver(s)
    /\ sess' = IF sess[s].skip THEN sess
               ELSE [sess EXCEPT ![s].transactions =
                                     Append(@, NewTransaction(timestamp))]
    /\ UNCHANGED <<score, crashed>>

txMailCb(s, result) ==
    /\ Deliver(s)
    /\ IF sess[s].skip THEN UNCHANGED <<sess, crashed>>
       ELSE IF NoTransaction(s) THEN crashed' = TRUE /\ UNCHANGED sess
       ELSE /\ sess' = IF result = "ok"
                       THEN SetLastTx(s, [LastTx(s) EXCEPT !.mailFromOK = TRUE])
                       ELSE sess
            /\ UNCHANGED crashed
    /\ UNCHANGED score

txRcptCb(s, result) ==
    /\ Deliver(s)
    /\ IF sess[s].skip THEN UNCHANGED <<sess, crashed>>
       ELSE IF NoTransaction(s) THEN crashed' = TRUE /\ UNCHANGED sess
       ELSE /\ sess' =
                 IF result = "ok"
                 THEN SetLastTx(s, [LastTx(s) EXCEPT !.rcptToOK = @ + 1])
                 ELSE IF result = "tempfail"
                 THEN SetLastTx(s, [LastTx(s) EXCEPT !.rcptToTempfail = @ + 1])
                 ELSE IF result = "permfail"
                 THEN SetLastTx(s, [LastTx(s) EXCEPT !.rcptToPermfail = @ + 1])
                 ELSE sess
            /\ UNCHANGED crashed
    /\ UNCHANGED score

txDataCb(s) ==
    /\ Deliver(s)
    /\ IF sess[s].skip THEN UNCHANGED <<sess, crashed>>
       ELSE IF NoTransaction(s) THEN crashed' = TRUE /\ UNCHANGED sess
       ELSE /\ sess' = SetLastTx(s, [LastTx(s) EXCEPT !.sawData = TRUE])
            /\ UNCHANGED crashed
    /\ UNCHANGED score

\* (the transaction's score is computed for the log line only)
txCommitCb(s, timestamp) ==
    /\ Deliver(s)
    /\ IF sess[s].skip THEN UNCHANGED <<sess, crashed, score>>
       ELSE IF NoTransaction(s)
       THEN crashed' = TRUE /\ UNCHANGED <<sess, score>>
       ELSE LET tx == [LastTx(s) EXCEPT !.endTime = timestamp,
                                        !.committed = TRUE]
            IN  /\ sess' = SetLastTx(s, tx)
                /\ UNCHANGED <<score, crashed>>

txRollbackCb(s, timestamp) ==
    /\ Deliver(s)
    /\ IF sess[s].skip THEN UNCHANGED <<sess, crashed, score>>
       ELSE IF NoTransaction(s)
       THEN crashed' = TRUE /\ UNCHANGED <<sess, score>>
       ELSE LET tx == [LastTx(s) EXCEPT !.endTime = timestamp]
            IN  /\ sess' = SetLastTx(s, tx)
                /\ UNCHANGED <<score, crashed>>

(***************************************************************************)
(* Variant A: linkDisconnectCb, step by step.                              *)
(***************************************************************************)
\* mutant: the skip test is missing
linkDisconnectCbNoSkip(s, timestamp) ==
    /\ ~crashed
    /\ Waiting(s)
    /\ sess' = [sess EXCEPT ![s].disconnectTime = timestamp]
    /\ pc' = [pc EXCEPT ![s] = "d_lock"]
    /\ UNCHANGED <<ipScoring, ipScoringMutex, scorings, score, summary,
                   delivered, quota, crashed, now>>
    /\ UNCHANGED sweepVars
    /\ UNCHANGED notA

\* lines 270-273
linkDisconnectCb(s, timestamp) ==
    /\ ~crashed
    /\ Waiting(s)
    /\ IF sess[s].skip
       THEN /\ pc' = [pc EXCEPT ![s] = "done"]
            /\ UNCHANGED sess
       ELSE /\ sess' = [sess EXCEPT ![s].disconnectTime = timestamp]
            /\ pc' = [pc EXCEPT ![s] = "d_lock"]
    /\ UNCHANGED <<ipScoring, ipScoringMutex, scorings, score, summary,
                   delivered, quota, crashed, now>>
    /\ UNCHANGED sweepVars
    /\ UNCHANGED notA

\* line 275: ipScoringMutex.Lock()
DisconnectLock(s) ==
    /\ ~crashed
    /\ pc[s] = "d_lock"
    /\ ipScoringMutex = Free
    /\ ipScoringMutex' = s
    /\ pc' = [pc EXCEPT ![s] = "d_summarize"]
    /\ UNCHANGED <<ipScoring, sess, scorings, score, summary, delivered,
                   quota, crashed, now>>
    /\ UNCHANGED sweepVars
    /\ UNCHANGED notA

\* line 276, the argument summarizeSession(session), evaluated under the lock
DisconnectSummarize(s) ==
    /\ ~crashed
    /\ pc[s] = "d_summarize"
    /\ summary' = [summary EXCEPT ![s] = summarizeSession(sess[s], now)]
    /\ pc' = [pc EXCEPT ![s] = "d_append"]
    /\ UNCHANGED <<ipScoring, ipScoringMutex, sess, scorings, score,
                   delivered, quota, crashed, now>>
    /\ UNCHANGED sweepVars
    /\ UNCHANGED notA

\* mutant: the summary replaces the history instead of being appended
DisconnectAppendReplaces(s) ==
    /\ ~crashed
    /\ pc[s] = "d_append"
    /\ LET key == IPString(sess[s].addr)
       IN  ipScoring' = MapPut(ipScoring, key,
                               <<summary[s]>>)
    /\ summary' = [summary EXCEPT ![s] = ZeroScoring]
    /\ pc' = [pc EXCEPT ![s] = "d_unlock"]
    /\ UNCHANGED <<ipScoringMutex, sess, scorings, score, delivered, quota,
                   crashed, now>>
    /\ UNCHANGED sweepVars
    /\ UNCHANGED notA

\* line 276: ipScoring[key] = append(ipScoring[key], summary)
DisconnectAppend(s) ==
    /\ ~crashed
    /\ pc[s] = "d_append"
    /\ LET key == IPString(sess[s].addr)
       IN  ipScoring' = MapPut(ipScoring, key,
                               Append(MapGet(ipScoring, key), summary[s]))
    /\ summary' = [summary EXCEPT ![s] = ZeroScoring]
    /\ pc' = [pc EXCEPT ![s] = "d_unlock"]
    /\ UNCHANGED <<ipScoringMutex, sess, scorings, score, delivered, quota,
                   crashed, now>>
    /\ UNCHANGED sweepVars
    /\ UNCHANGED notA

\* line 277: ipScoringMutex.Unlock()
DisconnectUnlock(s) ==
    /\ ~crashed
    /\ pc[s] = "d_unlock"
    /\ ipScoringMutex' = Free
    /\ pc' = [pc EXCEPT ![s] = "d_score"]
    /\ UNCHANGED <<ipScoring, sess, scorings, score, summary, delivered,
                   quota, crashed, now>>
    /\ UNCHANGED sweepVars
    /\ UNCHANGED notA

\* line 279: scoreSession(session), the argument of the log line
DisconnectScore(s) ==
    /\ ~crashed
    /\ pc[s] = "d_score"
    /\ score' = [score EXCEPT ![s] = scoreSession(sess[s])]
    /\ pc' = [pc EXCEPT ![s] = "d_log"]
    /\ UNCHANGED <<ipScoring, ipScoringMutex, sess, scorings, summary,
                   delivered, quota, crashed, now>>
    /\ UNCHANGED sweepVars
    /\ UNCHANGED notA

\* line 279: the log line; the handler returns
DisconnectLog(s) ==
    /\ ~crashed
    /\ pc[s] = "d_log"
    /\ score' = [score EXCEPT ![s] = Zero]
    /\ pc' = [pc EXCEPT ![s] = "done"]
    /\ UNCHANGED <<ipScoring, ipScoringMutex, sess, scorings, summary,
                   delivered, quota, crashed, now>>
    /\ UNCHANGED sweepVars
    /\ UNCHANGED notA

(***************************************************************************)
(* Variant A: the sweep goroutine started by init().                       *)
(***************************************************************************)
\* lines 36-37: the sleep is over and the mutex is taken; the range starts
SweepLock ==
    /\ ~crashed
    /\ sweepPc = "sleep"
    /\ ipScoringMutex = Free
    /\ ipScoringMutex' = Sweeper
    /\ sweepPc' = "range"
    /\ sweepTodo' = DOMAIN ipScoring
    /\ UNCHANGED <<ipScoring, sweepIp, sweepScoring, sweepNow, quota, crashed, now>>
    /\ UNCHANGED sessionVars
    /\ UNCHANGED notA

\* mutant: the age check comes before the size check
SweepVisitAgeFirst(ip) ==
    /\ ~crashed
    /\ sweepPc = "range"
    /\ ip \in sweepTodo
    /\ LET scoring == ipScoring[ip]
       IN  /\ sweepIp' = ip
           /\ sweepScoring' = scoring
           /\ sweepNow' = now
           /\ IF SweepExpired(scoring, now)
              THEN ipScoring' = MapDelete(ipScoring, ip)
              ELSE IF Len(scoring) > MaxHistory
                   THEN ipScoring' = MapPut(ipScoring, ip, SweepTrim(scoring))
                   ELSE UNCHANGED ipScoring
    /\ sweepTodo' = sweepTodo \ {ip}
    /\ UNCHANGED <<ipScoringMutex, sweepPc, quota, crashed, now>>
    /\ UNCHANGED sessionVars
    /\ UNCHANGED notA

\* lines 38-45: one iteration of the range, for a key the loop produces
SweepVisit(ip) ==
    /\ ~crashed
    /\ sweepPc = "range"
    /\ ip \in sweepTodo
    /\ LET scoring == ipScoring[ip]
       IN  /\ sweepIp' = ip
           /\ sweepScoring' = scoring
           /\ IF Len(scoring) > MaxHistory
              THEN /\ ipScoring' = MapPut(ipScoring, ip, SweepTrim(scoring))
                   /\ UNCHANGED sweepNow
              ELSE /\ sweepNow' = now
                   /\ IF SweepExpired(scoring, now)
                      THEN ipScoring' = MapDelete(ipScoring, ip)
                      ELSE UNCHANGED ipScoring
    /\ sweepTodo' = sweepTodo \ {ip}
    /\ UNCHANGED <<ipScoringMutex, sweepPc, quota, crashed, now>>
    /\ UNCHANGED sessionVars
    /\ UNCHANGED notA

\* line 46: the range is over, ipScoringMutex.Unlock(), back to sleep
SweepUnlock ==
    /\ ~crashed
    /\ sweepPc = "range"
    /\ sweepTodo = {}
    /\ ipScoringMutex' = Free
    /\ sweepPc' = "sleep"
    /\ sweepIp' = ""
    /\ sweepScoring' = <<>>
    /\ sweepNow' = ZeroTime
    /\ UNCHANGED <<ipScoring, sweepTodo, quota, crashed, now>>
    /\ UNCHANGED sessionVars
    /\ UNCHANGED notA

\* a day passes
Tick ==
    /\ ~crashed
    /\ now < StartDay + MaxTicks
    /\ now' = now + 1
    /\ UNCHANGED <<ipScoring, ipScoringMutex, quota, crashed>>
    /\ UNCHANGED sessionVars
    /\ UNCHANGED sweepVars
    /\ UNCHANGED notA

\* the process is not scheduled for more than RetentionDays days (stopped
\* and continued): the clock has moved on when its goroutines run again
Stall ==
    /\ ~crashed
    /\ now <= StartDay + MaxTicks
    /\ now' = now + RetentionDays + 1
    /\ UNCHANGED <<ipScoring, ipScoringMutex, quota, crashed>>
    /\ UNCHANGED sessionVars
    /\ UNCHANGED sweepVars
    /\ UNCHANGED notA

(***************************************************************************)
(* Inputs: what the mail server sends.                                     *)
(***************************************************************************)
UnixSrc == [net |-> "unix", ip |-> NilIP]
TcpSrc(ip) == [net |-> "tcp", ip |-> ip]
Srcs == {TcpSrc(ip) : ip \in IPs} \cup {UnixSrc}
RdnsNames == {"<unknown>", "mx.example.org"}
FcrdnsResults == {"ok", "pass", "fail"}
Methods == {"HELO", "EHLO"}
Hostnames == {"mx.example.org"}
AuthResults == {"ok", "fail"}
TlsStrings == {"TLSv1.3"}
MailResults == {"ok", "permfail"}
RcptResults == {"ok", "tempfail", "permfail"}

\* <<rdns, fcrdns, src>> of the connects of the two-session specification
ConnectInputs ==
    {<<"<unknown>", "fail", TcpSrc([form |-> 4, host |-> "192.0.2.1"])>>,
     <<"mx.example.org", "pass", TcpSrc([form |-> 16, host |-> "192.0.2.1"])>>,
     <<"mx.example.org", "ok", TcpSrc([form |-> 16, host |-> "2001:db8::2"])>>,
     <<"<unknown>", "fail", UnixSrc>>}

(***************************************************************************)
(* Histories the store can hold when the model starts: every summary is    *)
(* what summarizeSession returns for a session that negotiated TLS and     *)
(* authenticated k times (score 0.2 + 0.1 k, clamped).                     *)
(***************************************************************************)
PastSession(k) ==
    [ZeroSession EXCEPT !.cmdTLS = TRUE, !.tlsString = "TLSv1.3",
                        !.cmdAuth = (k > 0), !.authok = k]

\* n summaries, the newest of day `last`, the others of day `first`
History(n, first, last) ==
    [i \in 1..n |-> summarizeSession(PastSession(i % 7),
                                     IF i = n THEN last ELSE first)]

\* a session that sent the data of one message and had it committed
\* (score 0.3 + 0.3)
PastDelivery ==
    [ZeroSession EXCEPT
        !.transactions = <<[NewTransaction(StartDay) EXCEPT
                               !.sawData = TRUE, !.committed = TRUE,
                               !.endTime = StartDay]>>]

\* scores 0.2, 0.4, 0.6, 0.8, 1.0, all of one day
FiveScores(day) ==
    [i \in 1..5 |->
        summarizeSession(IF i = 3 THEN PastDelivery ELSE PastSession(2 * (i - 1)),
                         day)]

\* the newest summary of a history that is exactly RetentionDays old at the start
EdgeDay == StartDay - RetentionDays

\* the stores Spec starts with: the empty map `make` returns when the
\* process starts, and two stores that earlier sessions have left behind: one
\* with five summaries that are exactly RetentionDays old (a day later the
\* sweep deletes them), and one with four new summaries, one short of
\* MinHistory
InitStores ==
    {EmptyMap,
     [k \in {"192.0.2.1"} |-> FiveScores(EdgeDay)],
     [k \in {"192.0.2.1"} |-> History(MinHistory - 1, StartDay, StartDay)]}

NoInput  == [kind |-> "none"]
NoOutput == [done |-> FALSE]

InitPure == input = NoInput /\ output = NoOutput

InitA(stores, q) ==
    /\ ipScoring \in stores
    /\ ipScoringMutex = Free
    /\ sess = [s \in Sessions |-> ZeroSession]
    /\ pc = [s \in Sessions |-> "new"]
    /\ scorings = [s \in Sessions |-> NoScorings]
    /\ score = [s \in Sessions |-> Zero]
    /\ summary = [s \in Sessions |-> ZeroScoring]
    /\ sweepPc = "sleep"
    /\ sweepTodo = {}
    /\ sweepIp = ""
    /\ sweepScoring = <<>>
    /\ sweepNow = ZeroTime
    /\ now = StartDay
    /\ delivered = [s \in Sessions |-> 0]
    /\ quota = q
    /\ crashed = FALSE

\* every event handler, for session s
SessionEvent(s) ==
    \/ \E m \in Methods, h \in Hostnames : linkIdentifyCb(s, m, h)
    \/ \E r \in AuthResults : linkAuthCb(s, r)
    \/ \E t \in TlsStrings : linkTLSCb(s, t)
    \/ txResetCb(s)
    \/ txBeginCb(s, now)
    \/ \E r \in MailResults : txMailCb(s, r)
    \/ \E r \in RcptResults : txRcptCb(s, r)
    \/ txDataCb(s)
    \/ txCommitCb(s, now)
    \/ txRollbackCb(s, now)

\* the steps of linkConnectCb after its first
ConnectStep(s) ==
    \/ ConnectLock(s)
    \/ ConnectRead(s)
    \/ ConnectUnlock(s)
    \/ ConnectAggregate(s)
    \/ ConnectLog(s)

\* linkDisconnectCb
DisconnectStep(s) ==
    \/ linkDisconnectCb(s, now)
    \/ DisconnectLock(s)
    \/ DisconnectSummarize(s)
    \/ DisconnectAppend(s)
    \/ DisconnectUnlock(s)
    \/ DisconnectScore(s)
    \/ DisconnectLog(s)

SweepStep ==
    \/ SweepLock
    \/ \E ip \in DOMAIN ipScoring : SweepVisit(ip)
    \/ SweepUnlock

\* the mail server numbers its sessions in the order they connect
SessionOrder == <<"s1", "s2">>
MayConnect(s) ==
    \A i, j \in DOMAIN SessionOrder :
        (i < j /\ SessionOrder[j] = s) => pc[SessionOrder[i]] # "new"

(***************************************************************************)
(* Variant B: the trust table and its handlers (src/filter-reputation.go). *)
(* The table has no lock; every access of one of its maps is a step of its *)
(* own, the handler's private computation rides with the access before it. *)
(***************************************************************************)
\* strings.ToLower on the names the mail server sends, which are ASCII:
\* every upper-case letter is replaced by its lower-case letter
LowerChar(c) ==
    LET upper == "ABCDEFGHIJKLMNOPQRSTUVWXYZ"
        lower == "abcdefghijklmnopqrstuvwxyz"
    IN  IF \E i \in 1..Len(upper) : SubSeq(upper, i, i) = c
        THEN SubSeq(lower,
                    CHOOSE i \in 1..Len(upper) : SubSeq(upper, i, i) = c,
                    CHOOSE i \in 1..Len(upper) : SubSeq(upper, i, i) = c)
        ELSE c

RECURSIVE ToLower(_)
ToLower(str) ==
    IF str = "" THEN ""
    ELSE LowerChar(SubSeq(str, 1, 1)) \o ToLower(SubSeq(str, 2, Len(str)))

\* &SessionData{} of the session allocator
ZeroSessionB ==
    [hasReverseDNS |-> FALSE, hasFcReverseDNS |-> FALSE, hasStartTLS |-> FALSE,
     hasAuth |-> FALSE, hasEHLO |-> FALSE,
     rDNS |-> "", ip |-> NilIP, heloname |-> "",
     txBegin |-> 0, txData |-> 0, txCommit |-> 0, txRollback |-> 0,
     txMailFrom |-> 0, txRcptTo |-> 0, rsetCount |-> 0,
     failedAuth |-> 0, failedMail |-> 0, failedRcpt |-> 0,
     overallReputation |-> Zero, ipReputation |-> Zero,
     rdnsReputation |-> Zero, heloReputation |-> Zero]

NewReputation == [ipAddress |-> EmptyMap, rdns |-> EmptyMap, hostname |-> EmptyMap]

\* mutant: an unseen key scores 0
ScoreOrDefaultZero(m, key) == IF key \in DOMAIN m THEN m[key] ELSE Zero

\* `if score, ok := m[key]; ok { return score }; return 0.5`
ScoreOrDefault(m, key) == IF key \in DOMAIN m THEN m[key] ELSE Half

IPAddress(r, ip)       == ScoreOrDefault(r.ipAddress, IPString(ip))
ReverseDNS(r, hostname) == ScoreOrDefault(r.rdns, hostname)
Hostname(r, hostname)  == ScoreOrDefault(r.hostname, hostname)

\* (`back` is where the worker waits once linkIdentifyCb has returned)
NoLocals ==
    [event |-> <<>>, ipScore |-> Zero, rdnsScore |-> Zero, hostname |-> "",
     back |-> ""]

\* the handler of session s returns: its locals are gone
Returned(s) == [NoLocals EXCEPT !.event = localsB[s].event]

\* the session's worker is between two handlers, before ("new") or after
\* ("idle") its link-connect
WaitingB(s) == pcB[s] \in {"new", "idle"}

\* `if penalize { v = applyPenalty(resourceType, v) } else
\* { v = applyReward(resourceType, v) }`
Adjusted(penalize, resourceType, reputationScore) ==
    IF penalize THEN applyPenalty(resourceType, reputationScore)
    ELSE applyReward(resourceType, reputationScore)

\* linkConnectCb from the computation of overallReputation on: what the
\* session's three fields become.  overallReputation is computed from the
\* two scores as they were looked up; then each score is adjusted for the
\* reverse DNS and, after that, for its forward confirmation.
ConnectReputation(session, ipScore, rdnsScore) ==
    [session EXCEPT
        !.overallReputation =
            RDivInt(RAdd(RMul(ipScore, ipWeight), RMul(rdnsScore, rdnsWeight)), 2),
        !.ipReputation =
            Adjusted(~session.hasFcReverseDNS, "FCrDNS",
                     Adjusted(~session.hasReverseDNS, "rDNS", ipScore)),
        !.rdnsReputation =
            Adjusted(~session.hasFcReverseDNS, "rDNS",
                     Adjusted(~session.hasReverseDNS, "rDNS", rdnsScore))]

\* the `if session.hasReverseDNS { ... }` of linkIdentifyCb, for one score
AdjustedForName(session, hostname, reputationScore) ==
    IF ~session.hasReverseDNS THEN reputationScore
    ELSE Adjusted(ToLower(hostname) # session.rDNS, "heloname", reputationScore)

\* the two assignments that end linkIdentifyCb, with the adjusted scores
IdentifyAssign(session, ipScore, rdnsScore, helonameScore) ==
    [session EXCEPT
        !.heloReputation = helonameScore,
        !.overallReputation =
            RDivInt(RAdd(RAdd(RMul(ipScore, ipWeight),
                              RMul(rdnsScore, rdnsWeight)),
                         RMul(helonameScore, helonameWeight)), 3)]

\* linkIdentifyCb from `if hasReverseDNS` on
IdentifyReputation(session, hostname, ipScore, rdnsScore, helonameScore) ==
    IdentifyAssign(session,
                   AdjustedForName(session, hostname, ipScore),
                   AdjustedForName(session, hostname, rdnsScore),
                   AdjustedForName(session, hostname, helonameScore))

\* mutant: the feedback is added, not averaged
FeedbackSessionNoHalving(session) ==
    [session EXCEPT
        !.ipReputation =
            clamp(RAdd(@, RMul(session.overallReputation, ipWeight)), Zero, One),
        !.rdnsReputation =
            clamp(RAdd(@, RMul(session.overallReputation, rdnsWeight)), Zero, One),
        !.heloReputation =
            clamp(RAdd(@, RMul(session.overallReputation, helonameWeight)), Zero, One)]

\* Feedback up to the writes of the table
FeedbackSession(session) ==
    [session EXCEPT
        !.ipReputation =
            clamp(RDivInt(RAdd(session.ipReputation,
                               RMul(session.overallReputation, ipWeight)), 2),
                  Zero, One),
        !.rdnsReputation =
            clamp(RDivInt(RAdd(session.rdnsReputation,
                               RMul(session.overallReputation, rdnsWeight)), 2),
                  Zero, One),
        !.heloReputation =
            clamp(RDivInt(RAdd(session.heloReputation,
                               RMul(session.overallReputation, helonameWeight)), 2),
                  Zero, One)]

linkConnectCbB(s, rdns, fcrdns, src) ==
    /\ ~crashedB
    /\ pcB[s] = "new"
    /\ IF src.net # "tcp"
       THEN \* src.(*net.TCPAddr) panics
            /\ crashedB' = TRUE
            /\ UNCHANGED <<sessB, pcB>>
       ELSE /\ sessB' = [sessB EXCEPT
                           ![s].ip = src.ip,
                           ![s].rDNS = ToLower(rdns),
                           ![s].hasReverseDNS = (rdns # "<unknown>"),
                           ![s].hasFcReverseDNS = (fcrdns # "ok")]
            /\ pcB' = [pcB EXCEPT ![s] = "c_ip"]
            /\ UNCHANGED crashedB
    /\ localsB' = [localsB EXCEPT ![s].event = <<"link-connect", rdns, fcrdns>>]
    /\ UNCHANGED <<reputation, deliveredB, quotaB>>
    /\ UNCHANGED notB

\* ipScore := reputation.IPAddress(ip)
ConnectIPAddress(s) ==
    /\ ~crashedB
    /\ pcB[s] = "c_ip"
    /\ localsB' = [localsB EXCEPT ![s].ipScore = IPAddress(reputation, sessB[s].ip)]
    /\ pcB' = [pcB EXCEPT ![s] = "c_rdns"]
    /\ UNCHANGED <<reputation, sessB, deliveredB, quotaB, crashedB>>
    /\ UNCHANGED notB

\* rdnsScore := reputation.ReverseDNS(rDNS), and the rest of the handler
ConnectReverseDNS(s) ==
    /\ ~crashedB
    /\ pcB[s] = "c_rdns"
    /\ sessB' = [sessB EXCEPT ![s] =
                    ConnectReputation(sessB[s], localsB[s].ipScore,
                                      ReverseDNS(reputation, sessB[s].rDNS))]
    /\ localsB' = [localsB EXCEPT ![s] = Returned(s)]
    /\ pcB' = [pcB EXCEPT ![s] = "idle"]
    /\ UNCHANGED <<reputation, deliveredB, quotaB, crashedB>>
    /\ UNCHANGED notB

\* the mail server delivers one more event to session s
DeliverB(s) ==
    /\ ~crashedB
    /\ WaitingB(s)
    /\ Sent(deliveredB) < quotaB
    /\ deliveredB' = [deliveredB EXCEPT ![s] = @ + 1]

linkIdentifyCbB(s, method, hostname) ==
    /\ DeliverB(s)
    /\ sessB' = [sessB EXCEPT ![s].hasEHLO = (method = "EHLO"),
                              ![s].heloname = ToLower(hostname)]
    /\ localsB' = [localsB EXCEPT ![s].hostname = hostname,
                                  ![s].event = <<"link-identify", method, hostname>>,
                                  ![s].back = pcB[s]]
    /\ pcB' = [pcB EXCEPT ![s] = "i_ip"]
    /\ UNCHANGED <<reputation, quotaB, crashedB>>
    /\ UNCHANGED notB

IdentifyIPAddress(s) ==
    /\ ~crashedB
    /\ pcB[s] = "i_ip"
    /\ localsB' = [localsB EXCEPT ![s].ipScore = IPAddress(reputation, sessB[s].ip)]
    /\ pcB' = [pcB EXCEPT ![s] = "i_rdns"]
    /\ UNCHANGED <<reputation, sessB, deliveredB, quotaB, crashedB>>
    /\ UNCHANGED notB

IdentifyReverseDNS(s) ==
    /\ ~crashedB
    /\ pcB[s] = "i_rdns"
    /\ localsB' = [localsB EXCEPT
                      ![s].rdnsScore = ReverseDNS(reputation, sessB[s].rDNS)]
    /\ pcB' = [pcB EXCEPT ![s] = "i_host"]
    /\ UNCHANGED <<reputation, sessB, deliveredB, quotaB, crashedB>>
    /\ UNCHANGED notB

\* helonameScore := reputation.Hostname(heloname), and the rest of the handler
IdentifyHostname(s) ==
    /\ ~crashedB
    /\ pcB[s] = "i_host"
    /\ sessB' = [sessB EXCEPT ![s] =
                    IdentifyReputation(sessB[s], localsB[s].hostname,
                                       localsB[s].ipScore, localsB[s].rdnsScore,
                                       Hostname(reputation, sessB[s].heloname))]
    /\ localsB' = [localsB EXCEPT ![s] = Returned(s)]
    /\ pcB' = [pcB EXCEPT ![s] = localsB[s].back]
    /\ UNCHANGED <<reputation, deliveredB, quotaB, crashedB>>
    /\ UNCHANGED notB

\* what a handler that touches only the session's own data leaves alone
privateFrameB == <<reputation, pcB, quotaB, crashedB>>

linkAuthCbB(s, result) ==
    /\ DeliverB(s)
    /\ sessB' = [sessB EXCEPT ![s] =
                    IF result # "ok"
                    THEN [sessB[s] EXCEPT !.failedAuth = @ + 1]
                    ELSE [sessB[s] EXCEPT !.hasAuth = TRUE]]
    /\ localsB' = [localsB EXCEPT ![s].event = <<"link-auth", result>>]
    /\ UNCHANGED privateFrameB
    /\ UNCHANGED notB

linkTLSCbB(s, tlsString) ==
    /\ DeliverB(s)
    /\ sessB' = [sessB EXCEPT ![s].hasStartTLS = TRUE]
    /\ localsB' = [localsB EXCEPT ![s].event = <<"link-tls", tlsString>>]
    /\ UNCHANGED privateFrameB
    /\ UNCHANGED notB

txResetCbB(s) ==
    /\ DeliverB(s)
    /\ sessB' = [sessB EXCEPT ![s].rsetCount = @ + 1]
    /\ localsB' = [localsB EXCEPT ![s].event = <<"tx-reset">>]
    /\ UNCHANGED privateFrameB
    /\ UNCHANGED notB

txBeginCbB(s) ==
    /\ DeliverB(s)
    /\ sessB' = [sessB EXCEPT ![s].txBegin = @ + 1]
    /\ localsB' = [localsB EXCEPT ![s].event = <<"tx-begin">>]
    /\ UNCHANGED privateFrameB
    /\ UNCHANGED notB

\* mutant: reward and penalty are swapped
txMailCbBSwapped(s, result) ==
    /\ DeliverB(s)
    /\ sessB' = [sessB EXCEPT ![s] =
                    IF result = "ok"
                    THEN [sessB[s] EXCEPT
                            !.txMailFrom = @ + 1,
                            !.failedMail = @ + 1,
                            !.overallReputation = applyPenalty("mailFrom", @)]
                    ELSE [sessB[s] EXCEPT
                            !.txMailFrom = @ + 1,
                            !.overallReputation = applyReward("mailFrom", @)]]
    /\ localsB' = [localsB EXCEPT ![s].event = <<"tx-mail", result>>]
    /\ UNCHANGED privateFrameB
    /\ UNCHANGED notB

txMailCbB(s, result) ==
    /\ DeliverB(s)
    /\ sessB' = [sessB EXCEPT ![s] =
                    IF result # "ok"
                    THEN [sessB[s] EXCEPT
                            !.txMailFrom = @ + 1,
                            !.failedMail = @ + 1,
                            !.overallReputation = applyPenalty("mailFrom", @)]
                    ELSE [sessB[s] EXCEPT
                            !.txMailFrom = @ + 1,
                            !.overallReputation = applyReward("mailFrom", @)]]
    /\ localsB' = [localsB EXCEPT ![s].event = <<"tx-mail", result>>]
    /\ UNCHANGED privateFrameB
    /\ UNCHANGED notB

txRcptCbB(s, result) ==
    /\ DeliverB(s)
    /\ sessB' = [sessB EXCEPT ![s] =
                    IF result # "ok"
                    THEN [sessB[s] EXCEPT
                            !.txRcptTo = @ + 1,
                            !.failedRcpt = @ + 1,
                            !.overallReputation = applyPenalty("recipient", @)]
                    ELSE [sessB[s] EXCEPT
                            !.txRcptTo = @ + 1,
                            !.overallReputation = applyReward("recipient", @)]]
    /\ localsB' = [localsB EXCEPT ![s].event = <<"tx-rcpt", result>>]
    /\ UNCHANGED privateFrameB
    /\ UNCHANGED notB

txDataCbB(s) ==
    /\ DeliverB(s)
    /\ sessB' = [sessB EXCEPT ![s].txData = @ + 1]
    /\ localsB' = [localsB EXCEPT ![s].event = <<"tx-data">>]
    /\ UNCHANGED privateFrameB
    /\ UNCHANGED notB

txCommitCbB(s) ==
    /\ DeliverB(s)
    /\ sessB' = [sessB EXCEPT ![s].txCommit = @ + 1]
    /\ localsB' = [localsB EXCEPT ![s].event = <<"tx-commit">>]
    /\ UNCHANGED privateFrameB
    /\ UNCHANGED notB

txRollbackCbB(s) ==
    /\ DeliverB(s)
    /\ sessB' = [sessB EXCEPT ![s].txRollback = @ + 1]
    /\ localsB' = [localsB EXCEPT ![s].event = <<"tx-rollback">>]
    /\ UNCHANGED privateFrameB
    /\ UNCHANGED notB

\* linkDisconnectCb: Feedback up to its first write of the table
linkDisconnectCbB(s) ==
    /\ ~crashedB
    /\ WaitingB(s)
    /\ sessB' = [sessB EXCEPT ![s] = FeedbackSession(sessB[s])]
    /\ pcB' = [pcB EXCEPT ![s] = "f_ip"]
    /\ localsB' = [localsB EXCEPT ![s].event = <<"link-disconnect">>]
    /\ UNCHANGED <<reputation, deliveredB, quotaB, crashedB>>
    /\ UNCHANGED notB

\* r.ipAddress[session.ip.String()] = session.ipReputation
FeedbackIPAddress(s) ==
    /\ ~crashedB
    /\ pcB[s] = "f_ip"
    /\ reputation' = [reputation EXCEPT
                         !.ipAddress = MapPut(@, IPString(sessB[s].ip),
                                              sessB[s].ipReputation)]
    /\ pcB' = [pcB EXCEPT ![s] = "f_rdns"]
    /\ UNCHANGED <<sessB, localsB, deliveredB, quotaB, crashedB>>
    /\ UNCHANGED notB

\* r.rdns[session.rDNS] = session.rdnsReputation
FeedbackReverseDNS(s) ==
    /\ ~crashedB
    /\ pcB[s] = "f_rdns"
    /\ reputation' = [reputation EXCEPT
                         !.rdns = MapPut(@, sessB[s].rDNS, sessB[s].rdnsReputation)]
    /\ pcB' = [pcB EXCEPT ![s] = "f_host"]
    /\ UNCHANGED <<sessB, localsB, deliveredB, quotaB, crashedB>>
    /\ UNCHANGED notB

\* r.hostname[session.heloname] = session.heloReputation
FeedbackHostname(s) ==
    /\ ~crashedB
    /\ pcB[s] = "f_host"
    /\ reputation' = [reputation EXCEPT
                         !.hostname = MapPut(@, sessB[s].heloname,
                                             sessB[s].heloReputation)]
    /\ pcB' = [pcB EXCEPT ![s] = "done"]
    /\ UNCHANGED <<sessB, localsB, deliveredB, quotaB, crashedB>>
    /\ UNCHANGED notB

\* the map of the table a worker at position p accesses next, and how
TableAccess ==
    [p \in {"c_ip", "c_rdns", "i_ip", "i_rdns", "i_host", "f_ip", "f_rdns", "f_host"} |->
        CASE p \in {"c_ip", "i_ip"}     -> [map |-> "ipAddress", write |-> FALSE]
          [] p \in {"c_rdns", "i_rdns"} -> [map |-> "rdns", write |-> FALSE]
          [] p = "i_host"               -> [map |-> "hostname", write |-> FALSE]
          [] p = "f_ip"                 -> [map |-> "ipAddress", write |-> TRUE]
          [] p = "f_rdns"               -> [map |-> "rdns", write |-> TRUE]
          [] p = "f_host"               -> [map |-> "hostname", write |-> TRUE]]

InTable(s) == pcB[s] \in DOMAIN TableAccess

\* two workers are at accesses of the same map, one of them a write, and
\* nothing orders the two accesses
ConflictingAccess(s, t) ==
    /\ s # t
    /\ InTable(s)
    /\ InTable(t)
    /\ TableAccess[pcB[s]].map = TableAccess[pcB[t]].map
    /\ TableAccess[pcB[s]].write

\* an unsynchronised write of a Go map that meets another access of it: the
\* two may also happen one after the other (the access steps above), or the
\* runtime stops the process ("concurrent map read and map write",
\* "concurrent map writes")
ConcurrentMapAccess(s, t) ==
    /\ ~crashedB
    /\ ConflictingAccess(s, t)
    /\ crashedB' = TRUE
    /\ UNCHANGED <<reputation, sessB, pcB, localsB, deliveredB, quotaB>>
    /\ UNCHANGED notB

\* what the mail server sends variant B
RdnsNamesB == {"<unknown>", "MX.Example.ORG"}
HostnamesB == {"mx.example.org", "Mail.Example.NET"}
FcrdnsResultsB == {"ok", "fail"}
TableSrcs == {TcpSrc([form |-> 4, host |-> "192.0.2.1"]), UnixSrc}

InitB(tables, q) ==
    /\ reputation \in tables
    /\ sessB = [s \in Sessions |-> ZeroSessionB]
    /\ pcB = [s \in Sessions |-> "new"]
    /\ localsB = [s \in Sessions |-> NoLocals]
    /\ deliveredB = [s \in Sessions |-> 0]
    /\ quotaB = q
    /\ crashedB = FALSE

ConnectStepB(s) ==
    \/ ConnectIPAddress(s)
    \/ ConnectReverseDNS(s)

IdentifyStepB(s) ==
    \/ IdentifyIPAddress(s)
    \/ IdentifyReverseDNS(s)
    \/ IdentifyHostname(s)

SessionEventB(s) ==
    \/ \E m \in Methods, h \in HostnamesB : linkIdentifyCbB(s, m, h)
    \/ \E r \in AuthResults : linkAuthCbB(s, r)
    \/ \E x \in TlsStrings : linkTLSCbB(s, x)
    \/ txResetCbB(s)
    \/ txBeginCbB(s)
    \/ \E r \in MailResults : txMailCbB(s, r)
    \/ \E r \in RcptResults : txRcptCbB(s, r)
    \/ txDataCbB(s)
    \/ txCommitCbB(s)
    \/ txRollbackCbB(s)

DisconnectStepB(s) ==
    \/ linkDisconnectCbB(s)
    \/ FeedbackIPAddress(s)
    \/ FeedbackReverseDNS(s)
    \/ FeedbackHostname(s)

MayConnectB(s) ==
    \A i, j \in DOMAIN SessionOrder :
        (i < j /\ SessionOrder[j] = s) => pcB[SessionOrder[i]] # "new"

(***************************************************************************)
(* Spec: two connections and the sweep contend for the history store,     *)
(* which starts empty or with the histories of earlier sessions.  The mail *)
(* server sends each session its connect and its disconnect and, at any    *)
(* time before the disconnect, up to MaxStoreEvents other events in all;   *)
(* longer sequences of events are explored by SpecSession.  Both sessions  *)
(* connect from one address or over the local socket, so that they meet on *)
(* one history: at a connect it holds 0, 1, 4, 5 or 6 summaries, and the   *)
(* sweep deletes it when a day has passed since five-day-old summaries     *)
(* were its newest.                                                        *)
(***************************************************************************)
\* <<rdns, fcrdns, src>> of the connects of Spec
StoreConnectInputs ==
    {<<"<unknown>", "fail", TcpSrc([form |-> 4, host |-> "192.0.2.1"])>>,
     <<"<unknown>", "fail", UnixSrc>>}

Init == InitA(InitStores, MaxStoreEvents) /\ InitB({NewReputation}, 0) /\ InitPure

Next ==
    \/ \E s \in Sessions :
          \/ /\ MayConnect(s)
             /\ \E c \in StoreConnectInputs :
                   linkConnectCb(s, now, c[1], c[2], c[3])
          \/ ConnectStep(s)
          \/ SessionEvent(s)
          \/ DisconnectStep(s)
    \/ SweepStep
    \/ Tick

Spec == Init /\ [][Next]_vars

(***************************************************************************)
(* SpecSession: one connection receives any MaxEvents events between its   *)
(* connect and its disconnect; the store starts with two histories.        *)
(***************************************************************************)
FirstSession == SessionOrder[1]

SessionStore ==
    [k \in {"192.0.2.1", "2001:db8::2"} |->
        IF k = "192.0.2.1" THEN FiveScores(StartDay)
        ELSE History(MinHistory - 1, EdgeDay - 1, EdgeDay)]

\* <<rdns, fcrdns, src>> of the connects of SpecSession
SessionConnectInputs ==
    ConnectInputs \cup
    {<<"mx.example.org", "fail", TcpSrc([form |-> 4, host |-> "192.0.2.1"])>>}

InitSession == InitA({SessionStore}, MaxEvents) /\ InitB({NewReputation}, 0) /\ InitPure

NextSession ==
    \/ \E c \in SessionConnectInputs :
          linkConnectCb(FirstSession, now, c[1], c[2], c[3])
    \/ ConnectStep(FirstSession)
    \/ SessionEvent(FirstSession)
    \/ DisconnectStep(FirstSession)

SpecSession == InitSession /\ [][NextSession]_vars

(***************************************************************************)
(* SpecTable: two connections of variant B, one worker each, use the trust *)
(* table: each connects and disconnects, and the mail server sends up to   *)
(* MaxTableEvents other events in all, before or after the connects.       *)
(* Longer sequences of events are explored by SpecTrust.                   *)
(***************************************************************************)
InitTable == InitA({EmptyMap}, 0) /\ InitB({NewReputation}, MaxTableEvents) /\ InitPure

NextTable ==
    \E s \in Sessions :
        \/ /\ MayConnectB(s)
           /\ \E r \in RdnsNamesB, f \in FcrdnsResultsB, src \in TableSrcs :
                 linkConnectCbB(s, r, f, src)
        \/ ConnectStepB(s)
        \/ SessionEventB(s)
        \/ IdentifyStepB(s)
        \/ DisconnectStepB(s)
        \/ \E t \in Sessions : ConcurrentMapAccess(s, t)

SpecTable == InitTable /\ [][NextTable]_vars

(***************************************************************************)
(* SpecTrust: one connection of variant B receives any MaxTrustEvents      *)
(* events between its connect and its disconnect; the trust table is new   *)
(* or holds what earlier sessions wrote.                                   *)
(***************************************************************************)
\* An earlier session, handler by handler.
\* linkConnectCb up to the lookups, for a connection from ip
ConnectingB(ip, rdns, fcrdns) ==
    [ZeroSessionB EXCEPT !.ip = ip,
                         !.rDNS = ToLower(rdns),
                         !.hasReverseDNS = (rdns # "<unknown>"),
                         !.hasFcReverseDNS = (fcrdns # "ok")]

\* the rest of linkConnectCb
ConnectedB(table, session) ==
    ConnectReputation(session, IPAddress(table, session.ip),
                      ReverseDNS(table, session.rDNS))

\* linkIdentifyCb after it has stored the name
IdentifiedAsB(table, session, hostname) ==
    IdentifyReputation(session, hostname, IPAddress(table, session.ip),
                       ReverseDNS(table, session.rDNS),
                       Hostname(table, session.heloname))

\* linkIdentifyCb, when the session was identified at all (hostname # "")
IdentifiedB(table, session, hostname) ==
    IF hostname = "" THEN session
    ELSE IdentifiedAsB(table,
                       [session EXCEPT !.hasEHLO = TRUE,
                                       !.heloname = ToLower(hostname)],
                       hostname)

\* txMailCb for n refused senders
RECURSIVE RefusedB(_, _)
RefusedB(session, n) ==
    IF n = 0 THEN session
    ELSE RefusedB([session EXCEPT
                      !.txMailFrom = @ + 1,
                      !.failedMail = @ + 1,
                      !.overallReputation = applyPenalty("mailFrom", @)],
                  n - 1)

\* the SessionData of an earlier session at its disconnect, Feedback done:
\* it connected from ip, was identified as hostname when that is not "",
\* and had nFailed senders refused
PastSessionB(table, ip, rdns, fcrdns, hostname, nFailed) ==
    FeedbackSession(
        RefusedB(IdentifiedB(table,
                             ConnectedB(table, ConnectingB(ip, rdns, fcrdns)),
                             hostname),
                 nFailed))

\* the table after Feedback wrote the session's three trusts
TableAfter(table, session) ==
    [ipAddress |-> MapPut(table.ipAddress, IPString(session.ip), session.ipReputation),
     rdns      |-> MapPut(table.rdns, session.rDNS, session.rdnsReputation),
     hostname  |-> MapPut(table.hostname, session.heloname, session.heloReputation)]

TrustIP == [form |-> 4, host |-> "192.0.2.1"]

\* one earlier session with a reverse-DNS name and a matching HELO name
GoodTable ==
    TableAfter(NewReputation,
               PastSessionB(NewReputation, TrustIP, "MX.Example.ORG", "fail",
                            "mx.example.org", 0))

\* the table after n more sessions without reverse DNS whose senders were
\* all refused
RECURSIVE AfterBadSessions(_, _)
AfterBadSessions(table, n) ==
    IF n = 0 THEN table
    ELSE AfterBadSessions(
             TableAfter(table,
                        PastSessionB(table, TrustIP, "<unknown>", "ok", "", 5)),
             n - 1)

\* three such sessions on a new table
BadTable == AfterBadSessions(NewReputation, 3)

TrustTables == {NewReputation, GoodTable, BadTable}

InitTrust == InitA({EmptyMap}, 0) /\ InitB(TrustTables, MaxTrustEvents) /\ InitPure

NextTrust ==
    \/ \E r \in RdnsNamesB, f \in FcrdnsResultsB, src \in TableSrcs :
          linkConnectCbB(FirstSession, r, f, src)
    \/ ConnectStepB(FirstSession)
    \/ SessionEventB(FirstSession)
    \/ IdentifyStepB(FirstSession)
    \/ DisconnectStepB(FirstSession)

SpecTrust == InitTrust /\ [][NextTrust]_vars

(***************************************************************************)
(* SpecSweep: the sweep and one connection, which receives up to           *)
(* MaxStoreEvents events besides its connect and disconnect, on a store of *)
(* two addresses with 100 summaries each; the clock can jump past the      *)
(* retention time.                                                         *)
(***************************************************************************)
SweepStore ==
    [k \in {"192.0.2.1", "2001:db8::2"} |-> History(MaxHistory, EdgeDay - 1, EdgeDay)]

InitSweep == InitA({SweepStore}, MaxStoreEvents) /\ InitB({NewReputation}, 0) /\ InitPure

NextSweep ==
    \/ \E c \in ConnectInputs :
          linkConnectCb(FirstSession, now, c[1], c[2], c[3])
    \/ ConnectStep(FirstSession)
    \/ SessionEvent(FirstSession)
    \/ DisconnectStep(FirstSession)
    \/ SweepStep
    \/ Tick
    \/ Stall

SpecSweep == InitSweep /\ [][NextSweep]_vars

(***************************************************************************)
(* SpecPair: the sweep and two connections from one address, whose history *)
(* starts with 100 summaries, the newest exactly RetentionDays old, beside  *)
(* the short history of another address.  The sessions send nothing        *)
(* between their connect and their disconnect; both disconnects append to  *)
(* the one history, which the sweep cuts when it has grown past 100 and    *)
(* deletes when a day has passed and nothing was appended.                 *)
(***************************************************************************)
PairStore ==
    [k \in {"192.0.2.1", "2001:db8::2"} |->
        IF k = "192.0.2.1" THEN History(MaxHistory, EdgeDay - 1, EdgeDay)
        ELSE History(MinHistory - 1, StartDay, StartDay)]

InitPair == InitA({PairStore}, 0) /\ InitB({NewReputation}, 0) /\ InitPure

NextPair ==
    \/ \E s \in Sessions :
          \/ /\ MayConnect(s)
             /\ linkConnectCb(s, now, "<unknown>", "fail",
                              TcpSrc([form |-> 4, host |-> "192.0.2.1"]))
          \/ ConnectStep(s)
          \/ DisconnectStep(s)
    \/ SweepStep
    \/ Tick

SpecPair == InitPair /\ [][NextPair]_vars

(***************************************************************************)
(* SpecTx: scoreTransaction applied to every transaction with up to        *)
(* MaxRcpt recipients of each kind.                                        *)
(***************************************************************************)
TxInputs ==
    {[NewTransaction(StartDay) EXCEPT
         !.mailFromOK = m, !.sawData = d, !.committed = c,
         !.endTime = IF c THEN StartDay ELSE ZeroTime,
         !.rcptToOK = ok, !.rcptToTempfail = tf, !.rcptToPermfail = pf] :
     m \in BOOLEAN, d \in BOOLEAN, c \in BOOLEAN,
     ok \in 0..MaxRcpt, tf \in 0..MaxRcpt, pf \in 0..MaxRcpt}

InitTx ==
    /\ InitA({EmptyMap}, 0)
    /\ InitB({NewReputation}, 0)
    /\ input \in {[kind |-> "tx", tx |-> tx] : tx \in TxInputs}
    /\ output = NoOutput

ApplyScoreTransaction ==
    /\ input.kind = "tx"
    /\ ~output.done
    /\ output' = [done |-> TRUE, value |-> scoreTransaction(input.tx)]
    /\ UNCHANGED <<input, notPure>>

NextTx == ApplyScoreTransaction

SpecTx == InitTx /\ [][NextTx]_vars

(***************************************************************************)
(* SpecAdjust: applyReward and applyPenalty applied to every trust value   *)
(* of the grid, for every resource type a handler passes and every         *)
(* resource type of degradationFactors.                                    *)
(***************************************************************************)
\* the first argument of the applyPenalty / applyReward calls of the handlers
HandlerResourceTypes == {"rDNS", "FCrDNS", "heloname", "mailFrom", "recipient"}

ResourceTypes == HandlerResourceTypes \cup DOMAIN degradationFactors

TrustGrid == {Rat(k, GridSteps) : k \in 0..GridSteps}

InitAdjust ==
    /\ InitA({EmptyMap}, 0)
    /\ InitB({NewReputation}, 0)
    /\ input \in {[kind |-> "adjust", resourceType |-> c, reputationScore |-> v] :
                      c \in ResourceTypes, v \in TrustGrid}
    /\ output = [done |-> FALSE, rewarded |-> FALSE, penalized |-> FALSE,
                 reward |-> Zero, penalty |-> Zero]

ApplyReward ==
    /\ input.kind = "adjust"
    /\ ~output.rewarded
    /\ output' = [output EXCEPT
                     !.rewarded = TRUE,
                     !.done = output.penalized,
                     !.reward = applyReward(input.resourceType,
                                            input.reputationScore)]
    /\ UNCHANGED <<input, notPure>>

ApplyPenalty ==
    /\ input.kind = "adjust"
    /\ ~output.penalized
    /\ output' = [output EXCEPT
                     !.penalized = TRUE,
                     !.done = output.rewarded,
                     !.penalty = applyPenalty(input.resourceType,
                                              input.reputationScore)]
    /\ UNCHANGED <<input, notPure>>

NextAdjust == ApplyReward \/ ApplyPenalty

SpecAdjust == InitAdjust /\ [][NextAdjust]_vars

(***************************************************************************)
(* Properties of the history store (C1, C10 checked under Spec; C2, C3, C4  *)
(* under SpecSweep, whose histories are long enough to be trimmed and old  *)
(* enough to expire).                                                      *)
(***************************************************************************)
\* the scores of a list of summaries
ScoresOf(list) == [i \in DOMAIN list |-> list[i].Score]

\* the sum of the scores of list[lo..hi], in millionths
RECURSIVE SumMicros(_, _, _)
SumMicros(list, lo, hi) ==
    IF lo > hi THEN 0
    ELSE IF lo = hi THEN Micros(list[lo].Score)
    ELSE LET mid == (lo + hi) \div 2
         IN  SumMicros(list, lo, mid) + SumMicros(list, mid + 1, hi)

\* x is the arithmetic mean of the scores of a non-empty list of summaries,
\* to a millionth
IsArithmeticMean(x, list) ==
    Abs(Micros(x) * Len(list) - SumMicros(list, 1, Len(list))) <= Len(list)

\* the history the store holds for the address of session s
StoredFor(s) == MapGet(ipScoring, IPString(sess[s].addr))

\* C1: the prior a connect computes is exactly 0.5 when the store held fewer
\* than 5 summaries for the connecting address (or none) at the moment the
\* lookup held the lock, and otherwise the arithmetic mean (to a millionth)
\* of the scores of all the summaries it held then, exactly 0.6 for the
\* scores 0.2, 0.4, 0.6, 0.8, 1.0, whatever the sweep and the other session
\* do in between.
C1_PriorTrust ==
    \A s \in Sessions :
        /\ pc[s] = "c_unlock" =>
              /\ ipScoringMutex = s
              /\ scorings[s].list = StoredFor(s)
              /\ scorings[s].exists = (IPString(sess[s].addr) \in DOMAIN ipScoring)
        /\ pc[s] = "c_log" =>
              LET list == scorings[s].list
              IN  /\ Len(list) < 5 => score[s] = Rat(1, 2)
                  /\ Len(list) >= 5 => IsArithmeticMean(score[s], list)
                  /\ ScoresOf(list) = <<Rat(2, 10), Rat(4, 10), Rat(6, 10),
                                        Rat(8, 10), Rat(10, 10)>>
                        => score[s] = Rat(6, 10)

\* C1 witness: a connect looked up the scores 0.2, 0.4, 0.6, 0.8, 1.0 and
\* computed 0.6; since its lookup a day has passed, the sweep has deleted
\* the five summaries, and the other session's disconnect has stored its
\* summary as the first of a new history of the same address.
C1_Witness ==
    \E s \in Sessions :
        /\ pc[s] = "c_log"
        /\ Len(scorings[s].list) = 5
        /\ ScoresOf(scorings[s].list) =
              <<Rat(2, 10), Rat(4, 10), Rat(6, 10), Rat(8, 10), Rat(10, 10)>>
        /\ score[s] = Rat(6, 10)
        /\ Len(StoredFor(s)) = 1
        /\ StoredFor(s)[1].Timestamp = StartDay + 1

\* the sweep's range loop has examined key sweepIp, whose history was
\* sweepScoring, and still holds the lock
SweepExamined == sweepPc = "range" /\ sweepIp # ""

\* C2: a key that held n > 100 summaries when the sweep examined it holds
\* exactly 100 afterwards: the 100 most recently appended, in their order.
C2_TrimKeepsNewest100 ==
    (SweepExamined /\ Len(sweepScoring) > 100) =>
        /\ sweepIp \in DOMAIN ipScoring
        /\ Len(ipScoring[sweepIp]) = 100
        /\ \A i \in 1..100 :
              ipScoring[sweepIp][i] = sweepScoring[Len(sweepScoring) - 100 + i]

\* C2 witness: the sweep met 101 summaries and left 100.
C2_Witness ==
    /\ SweepExamined
    /\ Len(sweepScoring) = 101
    /\ Len(ipScoring[sweepIp]) = 100

\* the newest summary of a history is more than 5 days older than day t
OlderThanFiveDays(scoring, t) == scoring[Len(scoring)].Timestamp + 5 < t

\* C3: a key with at most 100 summaries whose newest summary is more than 5
\* days older than the sweep's current time is absent once the sweep has
\* examined it; and no step ever removes a key whose newest summary is not
\* older than 5 days.
C3_ExpiryAfterFiveDays ==
    /\ [](  (/\ SweepExamined
             /\ Len(sweepScoring) <= 100
             /\ OlderThanFiveDays(sweepScoring, sweepNow))
          => sweepIp \notin DOMAIN ipScoring)
    /\ [][\A k \in DOMAIN ipScoring :
             k \notin DOMAIN ipScoring' =>
                 /\ Len(ipScoring[k]) <= 100
                 /\ OlderThanFiveDays(ipScoring[k], now)]_vars

\* C3 witness: the sweep examined a stale key of at most 100 summaries and
\* the key is gone.
C3_Witness ==
    /\ SweepExamined
    /\ Len(sweepScoring) <= 100
    /\ OlderThanFiveDays(sweepScoring, sweepNow)
    /\ sweepIp \notin DOMAIN ipScoring

\* C4 as claimed: in every reachable state every key holds at most 100
\* summaries.  (Refuted: a disconnect appends without trimming.)
C4_AlwaysAtMost100 ==
    \A k \in DOMAIN ipScoring : Len(ipScoring[k]) <= 100

\* C4, amended: when a sweep pass has examined every key and still holds
\* the lock, every key of the store holds at most 100 summaries.
C4_AtMost100AfterSweep ==
    (sweepPc = "range" /\ sweepTodo = {}) =>
        \A k \in DOMAIN ipScoring : Len(ipScoring[k]) <= 100

\* C4 witness: a pass is complete and it has cut a history longer than 100.
C4_Witness ==
    /\ sweepPc = "range" /\ sweepTodo = {}
    /\ Len(sweepScoring) > 100
    /\ \A k \in DOMAIN ipScoring : Len(ipScoring[k]) <= 100

\* C10 as claimed: no worker holds the lock while a scoring computation
\* (aggregateScoring at connect; summarizeSession, scoreSession at
\* disconnect) is in progress.  (Refuted at disconnect.)
C10_NoScoringUnderLock ==
    \A s \in Sessions :
        pc[s] \in {"c_score", "d_summarize", "d_score"} => ipScoringMutex # s

\* C10, amended: at connect the lock is released before aggregateScoring
\* runs, and at disconnect before the scoreSession of the log line runs;
\* but summarizeSession (and the scoreSession inside it) runs while the
\* disconnecting worker holds the lock.
C10_LockAcrossSummarizeOnly ==
    \A s \in Sessions :
        /\ pc[s] \in {"c_score", "d_score"} => ipScoringMutex # s
        /\ pc[s] = "d_summarize" => ipScoringMutex = s

\* C10 witness: a connect is about to aggregate a history of at least 5
\* summaries while another worker holds the lock.
C10_Witness ==
    \E s \in Sessions :
        /\ pc[s] = "c_score"
        /\ Len(scorings[s].list) >= 5
        /\ ipScoringMutex \notin {Free, s}
(***************************************************************************)
(* Properties of the scorers.                                              *)
(***************************************************************************)
Bit(b) == IF b THEN 1 ELSE 0
ClampInt(v, lo, hi) == IF v < lo THEN lo ELSE IF v > hi THEN hi ELSE v

\* the claimed transaction score, before the clamp, in tenths
TxRawTenths(tx) ==
    4 * Bit(tx.mailFromOK) + 3 * Bit(tx.sawData) + 3 * Bit(tx.committed)
    + tx.rcptToOK - 2 * (tx.rcptToTempfail + tx.rcptToPermfail)

TxTenths(tx) == ClampInt(TxRawTenths(tx), 0, 10)

InUnitInterval(v) == RLe(Zero, v) /\ RLe(v, One)

\* x is n / d to a millionth (d > 0)
IsRatio(x, n, d) == Abs(Micros(x) * d - n * 1000000) <= d

\* x is y to a millionth
IsClose(x, y) == Abs(Micros(x) - Micros(y)) <= 1

\* C6: the transaction score is clamp(0.4 [sender accepted] + 0.3 [data seen]
\* + 0.3 [committed] + 0.1 accepted - 0.2 (temp-failed + perm-failed), 0, 1)
\* to a millionth, and in [0,1]; accepted sender, data, commit and 2 accepted
\* recipients give exactly 1.0, an accepted sender with 1 temp-failed
\* recipient gives exactly 0.2.
C6_TransactionScore ==
    output.done =>
        LET tx == input.tx
        IN  /\ IsRatio(output.value, TxTenths(tx), 10)
            /\ InUnitInterval(output.value)
            /\ (/\ tx.mailFromOK /\ tx.sawData /\ tx.committed
                /\ tx.rcptToOK = 2
                /\ tx.rcptToTempfail + tx.rcptToPermfail = 0)
               => output.value = One
            /\ (/\ tx.mailFromOK /\ ~tx.sawData /\ ~tx.committed
                /\ tx.rcptToOK = 0
                /\ tx.rcptToTempfail = 1 /\ tx.rcptToPermfail = 0)
               => output.value = Rat(2, 10)

\* C6 witness: a transaction whose unclamped sum is above 1 was scored 1.0.
C6_Witness ==
    /\ output.done
    /\ TxRawTenths(input.tx) > 10
    /\ input.tx.rcptToOK = 2
    /\ output.value = One

\* the claimed session score: the ratio num / den, in units of 1/(20 n), n
\* the number of transactions (1 when there is none)
ExpectedSessionScore(session) ==
    LET txs == session.transactions
        n == IF Len(txs) = 0 THEN 1 ELSE Len(txs)
        RECURSIVE tenths(_)
        tenths(i) == IF i = 0 THEN 0 ELSE tenths(i - 1) + TxTenths(txs[i])
        raw == 2 * tenths(Len(txs))
               + n * (2 * session.authok - 2 * session.authfail
                      + 4 * Bit(session.cmdTLS) + 2 * Bit(session.rdns)
                      + 2 * Bit(session.fcrdns) - session.nResets)
    IN  [num |-> ClampInt(raw, 0, 20 * n), den |-> 20 * n]

\* x is the claimed score of the session, to a millionth
IsSessionScore(x, session) ==
    LET expected == ExpectedSessionScore(session)
    IN  IsRatio(x, expected.num, expected.den)

\* C7: in every reachable session state the session score is, to a
\* millionth, the claimed clamp(base + 0.1 auth successes - 0.1 auth failures
\* + 0.2 [TLS] + 0.1 [rdns] + 0.1 [fcrdns] - 0.05 resets, 0, 1), base the mean
\* of the transaction scores (0 without transaction); it lies in [0,1], and
\* so does the score of every summary in the store.
C7_SessionScore ==
    /\ \A s \in Sessions :
          /\ IsSessionScore(scoreSession(sess[s]), sess[s])
          /\ InUnitInterval(scoreSession(sess[s]))
          /\ pc[s] = "d_append" => IsSessionScore(summary[s].Score, sess[s])
          /\ pc[s] = "d_log" => IsSessionScore(score[s], sess[s])
    /\ \A k \in DOMAIN ipScoring :
          \A i \in DOMAIN ipScoring[k] : InUnitInterval(ipScoring[k][i].Score)

\* C7 witness: a session with two transactions of different scores has
\* been summarized into the store with a score strictly between 0 and 1.
C7_Witness ==
    \E s \in Sessions :
        /\ pc[s] = "d_unlock"
        /\ Len(sess[s].transactions) = 2
        /\ scoreTransaction(sess[s].transactions[1])
              # scoreTransaction(sess[s].transactions[2])
        /\ LET h == StoredFor(s)
           IN  /\ IsSessionScore(h[Len(h)].Score, sess[s])
               /\ RLt(Zero, h[Len(h)].Score)
               /\ RLt(h[Len(h)].Score, One)

\* C5: a session whose connect carried a non-TCP source address is marked
\* skip; no later event changes its SessionData (the connect and the
\* disconnect have set none of its fields), it never takes the lock, and the
\* store never changes: nothing is scored or recorded for it.
C5_SkippedSessionIgnored ==
    /\ [](\A s \in Sessions :
             sess[s].skip =>
                 /\ sess[s].connectTime = ZeroTime
                 /\ sess[s].disconnectTime = ZeroTime
                 /\ sess[s].addr = NilIP
                 /\ pc[s] \in {"idle", "done"}
                 /\ ipScoringMutex # s
                 /\ ipScoring = SessionStore
                 /\ ~crashed)
    /\ [][\A s \in Sessions :
             sess[s].skip => (sess'[s] = sess[s] /\ ipScoring' = ipScoring)]_vars

\* C5 witness: a session skipped at its connect has then received MaxEvents
\* events and its disconnect.
C5_Witness ==
    \E s \in Sessions :
        /\ sess[s] = [ZeroSession EXCEPT !.skip = TRUE]
        /\ delivered[s] = MaxEvents
        /\ pc[s] = "done"
(***************************************************************************)
(* Properties of the adjuster (checked under SpecAdjust).                  *)
(***************************************************************************)
\* the degradation factors the specification lists, in tenths
ListedFactorTenths ==
    [t \in {"IP", "rDNS", "heloname", "mailFrom", "mailDomain", "recipient"} |->
        CASE t = "IP" -> 10 [] t = "rDNS" -> 8 [] t = "heloname" -> 6
          [] t = "mailFrom" -> 4 [] t = "mailDomain" -> 2 [] t = "recipient" -> 5]

\* v raised by step, at most 1, and lowered by step, at least 0, all in
\* millionths
RaisedMicros(v, step)  == ClampInt(Micros(v) + step, 0, 1000000)
LoweredMicros(v, step) == ClampInt(Micros(v) - step, 0, 1000000)

\* C8: for a trust value v in [0,1] and a resource class c the handlers
\* pass, reward(c, v) and penalize(c, v) lie in [0,1], reward(c, v) >= v and
\* penalize(c, v) <= v; for the six listed classes reward is v + 0.05 factor
\* and penalize v - 0.10 factor, clamped, to a millionth, and the reward step
\* 0.05 factor the program computes is exactly half its penalty step
\* 0.10 factor.
C8_RewardPenalty ==
    output.done =>
        LET c == input.resourceType
            v == input.reputationScore
        IN  /\ InUnitInterval(output.reward)
            /\ InUnitInterval(output.penalty)
            /\ RLe(v, output.reward)
            /\ RLe(output.penalty, v)
            /\ c \in DOMAIN ListedFactorTenths =>
                  LET rewardStep  == RMul(baseReward, DegradationFactor(c))
                      penaltyStep == RMul(basePenalty, DegradationFactor(c))
                  IN  /\ RAdd(rewardStep, rewardStep) = penaltyStep
                      /\ Micros(rewardStep) = 5000 * ListedFactorTenths[c]
                      /\ Abs(Micros(output.reward)
                               - RaisedMicros(v, 5000 * ListedFactorTenths[c])) <= 1
                      /\ Abs(Micros(output.penalty)
                               - LoweredMicros(v, 10000 * ListedFactorTenths[c])) <= 1

\* C8 witness: a reward that had to be clamped to 1 and a penalty that
\* moved the value, for a class the handlers pass.
C8_Witness ==
    /\ output.done
    /\ input.resourceType = "rDNS"
    /\ RLt(input.reputationScore, One)
    /\ output.reward = One
    /\ RLt(output.penalty, input.reputationScore)
(***************************************************************************)
(* Properties of the two shared stores' locking.                           *)
(***************************************************************************)
\* the worker's next step reads or writes ipScoring
InHistoryStore(w) ==
    IF w = Sweeper THEN sweepPc = "range"
    ELSE pc[w] \in {"c_read", "d_append"}

\* C9: every read or write of a shared store happens while the accessing
\* worker holds that store's lock, so no two workers are inside the same
\* store at the same time: a worker about to access ipScoring holds
\* ipScoringMutex, and no write of a map of the trust table meets another
\* session's access of the same map.
C9_ExclusiveStoreAccess ==
    /\ \A w \in Sessions \cup {Sweeper} : InHistoryStore(w) => ipScoringMutex = w
    /\ \A s, t \in Sessions : ~ConflictingAccess(s, t)
(***************************************************************************)
(* Properties of the trust handlers (checked under SpecTrust).             *)
(***************************************************************************)
\* the handler of the event the session was last handed has returned
Handled(s, event) ==
    /\ pcB[s] = "idle"
    /\ localsB[s].event # <<>>
    /\ localsB[s].event[1] = event

\* v raised by step, at most 1; v lowered by step, at least 0
StepUp(v, step)   == MathMin(One, RAdd(v, step))
StepDown(v, step) == MathMax(Zero, RSub(v, step))

\* x is above y, at least y, by more than a millionth
Above(x, y)   == Micros(x) > Micros(y) + 1
AtLeast(x, y) == Micros(x) >= Micros(y) - 1

Interior(v) == RLt(Zero, v) /\ RLt(v, One)

\* the trust the table holds for a key, 0.5 when it holds none
Stored(map, key) == IF key \in DOMAIN map THEN map[key] ELSE Rat(1, 2)

\* the session's trust after the reverse-DNS presence adjustment of connect:
\* +0.05 * 0.8 when a name is present, -0.10 * 0.8 when not
AfterPresence(s, v) ==
    IF localsB[s].event[2] # "<unknown>"
    THEN StepUp(v, Rat(4, 100))
    ELSE StepDown(v, Rat(8, 100))

\* C11: when linkConnectCb has returned, the session's overall trust is, to
\* a millionth, 0.5 * ipTrust + 0.3 * rdnsTrust of the adjusted IP and
\* reverse-DNS trusts.
C11_ConnectOverallBlend ==
    \A s \in Sessions :
        Handled(s, "link-connect") =>
            IsClose(sessB[s].overallReputation,
                    RAdd(RMul(Rat(5, 10), sessB[s].ipReputation),
                         RMul(Rat(3, 10), sessB[s].rdnsReputation)))

\* C12: when linkConnectCb has returned, the IP trust and the reverse-DNS
\* trust are the looked-up values adjusted for reverse-DNS presence and then
\* for forward confirmation: fcrdns "ok" lowers neither and raises a trust
\* that was strictly inside (0,1), any other fcrdns raises neither and lowers
\* a trust that was strictly inside (0,1) (differences of less than a
\* millionth apart).
C12_ConnectAdjustments ==
    \A s \in Sessions :
        Handled(s, "link-connect") =>
            LET ip0   == AfterPresence(s, Stored(reputation.ipAddress,
                                                 IPString(sessB[s].ip)))
                rdns0 == AfterPresence(s, Stored(reputation.rdns, sessB[s].rDNS))
                ip1   == sessB[s].ipReputation
                rdns1 == sessB[s].rdnsReputation
            IN  IF localsB[s].event[3] = "ok"
                THEN /\ AtLeast(ip1, ip0) /\ AtLeast(rdns1, rdns0)
                     /\ Interior(ip0) => Above(ip1, ip0)
                     /\ Interior(rdns0) => Above(rdns1, rdns0)
                ELSE /\ AtLeast(ip0, ip1) /\ AtLeast(rdns0, rdns1)
                     /\ Interior(ip0) => Above(ip0, ip1)
                     /\ Interior(rdns0) => Above(rdns0, rdns1)

\* the 'heloname' adjustment of identify: +0.05 * 0.6 when the declared
\* hostname is the reverse-DNS name, -0.10 * 0.6 when not, nothing without
\* reverse DNS
AfterIdentify(session, hostname, v) ==
    IF ~session.hasReverseDNS THEN v
    ELSE IF ToLower(hostname) = session.rDNS THEN StepUp(v, Rat(3, 100))
    ELSE StepDown(v, Rat(6, 100))

\* C13: the step that ends linkIdentifyCb adjusts the session's IP,
\* reverse-DNS and HELO trusts with the 'heloname' factor and sets the
\* overall trust to 0.5 * IP + 0.3 * reverse-DNS + 0.2 * HELO of the three
\* (all to a millionth).
C13_IdentifyBlend ==
    [][\A s \in Sessions :
          (pcB[s] = "i_host" /\ pcB'[s] # "i_host") =>
              LET hostname == localsB[s].event[3]
                  ip   == AfterIdentify(sessB[s], hostname, sessB[s].ipReputation)
                  rdns == AfterIdentify(sessB[s], hostname, sessB[s].rdnsReputation)
                  helo == AfterIdentify(sessB[s], hostname,
                                        Stored(reputation.hostname, ToLower(hostname)))
              IN  /\ IsClose(sessB'[s].ipReputation, ip)
                  /\ IsClose(sessB'[s].rdnsReputation, rdns)
                  /\ IsClose(sessB'[s].heloReputation, helo)
                  /\ IsClose(sessB'[s].overallReputation,
                             RAdd(RAdd(RMul(Rat(5, 10), ip), RMul(Rat(3, 10), rdns)),
                                  RMul(Rat(2, 10), helo)))]_vars
\* the session was handed a tx-mail or tx-rcpt event in this step
Outcome(s, event) ==
    /\ deliveredB'[s] = deliveredB[s] + 1
    /\ localsB'[s].event[1] = event

\* C14: a tx-mail outcome turns the overall trust into reward('mailFrom',
\* overall) (+0.05 * 0.4, at most 1) when the sender was accepted and into
\* penalize('mailFrom', overall) (-0.10 * 0.4, at least 0) when not; a
\* tx-rcpt outcome does the same with 'recipient' (+0.05 * 0.5, -0.10 * 0.5),
\* all to a millionth; the overall trust is in [0,1] in every state.
C14_MailRcptOutcome ==
    /\ [](\A s \in Sessions : InUnitInterval(sessB[s].overallReputation))
    /\ [][\A s \in Sessions :
            LET overall  == sessB[s].overallReputation
                accepted == localsB'[s].event[2] = "ok"
            IN  /\ Outcome(s, "tx-mail") =>
                     IsClose(sessB'[s].overallReputation,
                             IF accepted THEN StepUp(overall, Rat(2, 100))
                             ELSE StepDown(overall, Rat(4, 100)))
                /\ Outcome(s, "tx-rcpt") =>
                     IsClose(sessB'[s].overallReputation,
                             IF accepted THEN StepUp(overall, Rat(25, 1000))
                             ELSE StepDown(overall, Rat(5, 100)))]_vars

\* C14 witness: an accepted sender after a refused recipient on a connection
\* that started at overall trust 0.2.
C14_Witness ==
    /\ Handled(FirstSession, "tx-mail")
    /\ localsB[FirstSession].event[2] = "ok"
    /\ sessB[FirstSession].failedRcpt = 1
    /\ IsClose(sessB[FirstSession].overallReputation, Rat(17, 100))

\* (current + overall * weight) / 2, kept in [0,1]
Folded(current, overall, weight) ==
    MathMax(Zero, MathMin(One, RDivInt(RAdd(current, RMul(overall, weight)), 2)))

\* map with key set to value and every other key as it was
OnlyKeyWritten(before, after, key, value) ==
    /\ DOMAIN after = DOMAIN before \cup {key}
    /\ after[key] = value
    /\ \A k \in DOMAIN before : k # key => after[k] = before[k]

\* C15: linkDisconnectCb turns the session's IP, reverse-DNS and HELO trust
\* into clamp((current + overall * weight) / 2, 0, 1) with weights 0.5, 0.3
\* and 0.2 (to a millionth), and Feedback stores exactly these values under the session's IP
\* address, reverse-DNS name and HELO name, changing nothing else of the
\* table; no step of any other handler changes the table.
C15_FeedbackWritesTable ==
    [][/\ \A s \in Sessions :
            LET session == sessB[s]
                overall == session.overallReputation
            IN  /\ (WaitingB(s) /\ pcB'[s] = "f_ip") =>
                      /\ IsClose(sessB'[s].ipReputation,
                                 Folded(session.ipReputation, overall, Rat(5, 10)))
                      /\ IsClose(sessB'[s].rdnsReputation,
                                 Folded(session.rdnsReputation, overall, Rat(3, 10)))
                      /\ IsClose(sessB'[s].heloReputation,
                                 Folded(session.heloReputation, overall, Rat(2, 10)))
                /\ (pcB[s] = "f_ip" /\ pcB'[s] = "f_rdns") =>
                      /\ OnlyKeyWritten(reputation.ipAddress, reputation'.ipAddress,
                                        IPString(session.ip), session.ipReputation)
                      /\ reputation'.rdns = reputation.rdns
                      /\ reputation'.hostname = reputation.hostname
                /\ (pcB[s] = "f_rdns" /\ pcB'[s] = "f_host") =>
                      /\ OnlyKeyWritten(reputation.rdns, reputation'.rdns,
                                        session.rDNS, session.rdnsReputation)
                      /\ reputation'.ipAddress = reputation.ipAddress
                      /\ reputation'.hostname = reputation.hostname
                /\ (pcB[s] = "f_host" /\ pcB'[s] = "done") =>
                      /\ OnlyKeyWritten(reputation.hostname, reputation'.hostname,
                                        session.heloname, session.heloReputation)
                      /\ reputation'.ipAddress = reputation.ipAddress
                      /\ reputation'.rdns = reputation.rdns
       /\ reputation' # reputation =>
            \E s \in Sessions :
                /\ pcB[s] \in {"f_ip", "f_rdns", "f_host"}
                /\ pcB'[s] # pcB[s]]_vars

\* C15 witness: Feedback is done for a session that was identified and had
\* a sender accepted; the table holds its three trusts, and still holds the
\* reverse-DNS trust an earlier session wrote under another name.
C15_Witness ==
    /\ pcB[FirstSession] = "done"
    /\ sessB[FirstSession].heloname = "mx.example.org"
    /\ sessB[FirstSession].txMailFrom = 1
    /\ reputation.ipAddress[IPString(sessB[FirstSession].ip)] =
          sessB[FirstSession].ipReputation
    /\ reputation.rdns[sessB[FirstSession].rDNS] = sessB[FirstSession].rdnsReputation
    /\ reputation.hostname["mx.example.org"] = sessB[FirstSession].heloReputation
    /\ RLt(Zero, sessB[FirstSession].ipReputation)
    /\ DOMAIN reputation.rdns = {"<unknown>", "mx.example.org"}

\* every trust the table holds is in [0,1]
TableInUnitInterval ==
    \A m \in {reputation.ipAddress, reputation.rdns, reputation.hostname} :
        \A k \in DOMAIN m : InUnitInterval(m[k])

\* C16: a lookup returns the trust the table holds for the key, i.e. what
\* Feedback last wrote, and 0.5 for a key the table does not hold; every
\* trust the table holds is in [0,1].
C16_LookupDefault ==
    /\ []TableInUnitInterval
    /\ [][\A s \in Sessions :
            /\ (pcB[s] \in {"c_ip", "i_ip"} /\ pcB'[s] # pcB[s]) =>
                  localsB'[s].ipScore =
                      Stored(reputation.ipAddress, IPString(sessB[s].ip))
            /\ (pcB[s] = "i_rdns" /\ pcB'[s] # pcB[s]) =>
                  localsB'[s].rdnsScore = Stored(reputation.rdns, sessB[s].rDNS)
            /\ (pcB[s] = "i_host" /\ pcB'[s] # pcB[s]
                  /\ ~sessB[s].hasReverseDNS) =>
                  sessB'[s].heloReputation =
                      Stored(reputation.hostname, sessB[s].heloname)]_vars

\* C16 witness: identify looked up an IP address the table holds at trust 0
\* and a reverse-DNS name it does not hold.
C16_Witness ==
    /\ pcB[FirstSession] = "i_host"
    /\ reputation = BadTable
    /\ localsB[FirstSession].ipScore = Zero
    /\ sessB[FirstSession].rDNS = "mx.example.org"
    /\ localsB[FirstSession].rdnsScore = Rat(1, 2)
(***************************************************************************)
(* Properties of the history store, continued (C17, C18 checked under      *)
(* SpecPair).                                                              *)
(***************************************************************************)
Chronological(scoring) ==
    \A i \in 1..(Len(scoring) - 1) :
        scoring[i].Timestamp <= scoring[i + 1].Timestamp

\* C17: in every reachable state the summaries stored for a key are in
\* chronological order, oldest first, whatever the interleaving of the
\* disconnects of two sessions and the sweep.
C17_ChronologicalOrder ==
    \A k \in DOMAIN ipScoring : Chronological(ipScoring[k])

\* C17 witness: two sessions from one address have disconnected on different
\* days, the sweep has cut the history of the address to its newest 100, and
\* both their summaries are stored at its end, the later one last.
C17_Witness ==
    /\ \A s \in Sessions : pc[s] = "done" /\ ~sess[s].skip
    /\ \E k \in DOMAIN ipScoring :
          LET scoring == ipScoring[k]
          IN  /\ \A s \in Sessions : IPString(sess[s].addr) = k
              /\ Len(scoring) = MaxHistory
              /\ SubSeq(scoring, 1, MaxHistory - 2) =
                    SubSeq(PairStore[k], 3, MaxHistory)
              /\ scoring[MaxHistory - 1].Timestamp = StartDay
              /\ scoring[MaxHistory].Timestamp = StartDay + 1

\* what a sweep may do to a history: leave it, or cut it to its newest 100
SweptHistory(before, after) ==
    \/ after = before
    \/ /\ Len(before) > 100
       /\ after = SubSeq(before, Len(before) - 99, Len(before))

\* C18: the only step of a disconnect that changes the store appends the
\* session's one summary at the end of the sequence of the session's
\* address, untrimmed, and changes no other key; every other change of the
\* store is a step of the sweep that removes one key or cuts one key to its
\* newest 100 summaries.
C18_DisconnectAppendsOne ==
    [][ipScoring' # ipScoring =>
          \/ \E s \in Sessions :
                LET key == IPString(sess[s].addr)
                    old == IF key \in DOMAIN ipScoring THEN ipScoring[key] ELSE <<>>
                IN  /\ pc[s] = "d_append"
                    /\ pc'[s] = "d_unlock"
                    /\ ~sess[s].skip
                    /\ ipScoringMutex = s
                    /\ DOMAIN ipScoring' = DOMAIN ipScoring \cup {key}
                    /\ Len(ipScoring'[key]) = Len(old) + 1
                    /\ SubSeq(ipScoring'[key], 1, Len(old)) = old
                    /\ ipScoring'[key][Len(old) + 1].Score = scoreSession(sess[s])
                    /\ \A k \in DOMAIN ipScoring : k # key => ipScoring'[k] = ipScoring[k]
          \/ /\ ipScoringMutex = Sweeper
             /\ DOMAIN ipScoring' \subseteq DOMAIN ipScoring
             /\ \E k \in DOMAIN ipScoring :
                   /\ k \in DOMAIN ipScoring' => SweptHistory(ipScoring[k], ipScoring'[k])
                   /\ \A j \in DOMAIN ipScoring \ {k} :
                         j \in DOMAIN ipScoring' /\ ipScoring'[j] = ipScoring[j]]_vars

\* C18 witness: after the other session's disconnect, a session has appended
\* the 102nd summary of their address and has not yet released the lock: the
\* 100 summaries the history started with and the other session's summary
\* are all in front of it, and the history of the other address is as it was.
C18_Witness ==
    \E s, t \in Sessions :
        /\ pc[s] = "d_unlock"
        /\ pc[t] = "done"
        /\ IPString(sess[t].addr) = IPString(sess[s].addr)
        /\ Len(StoredFor(s)) = MaxHistory + 2
        /\ SubSeq(StoredFor(s), 1, MaxHistory) = PairStore[IPString(sess[s].addr)]
        /\ StoredFor(s)[MaxHistory + 1].Score = scoreSession(sess[t])
        /\ StoredFor(s)[MaxHistory + 2].Timestamp = now
        /\ \E k \in DOMAIN ipScoring :
              k # IPString(sess[s].addr) /\ ipScoring[k] = PairStore[k]
(***************************************************************************)
(* Properties of the sweep (checked under SpecSweep).                      *)
(***************************************************************************)
\* the sweep's range loop takes key k in this step
SweepTakes(k) ==
    /\ sweepPc = "range"
    /\ k \in sweepTodo
    /\ k \notin sweepTodo'

\* C19: in a sweep pass a key with more than 100 summaries is cut to its
\* newest 100 and stays in the store even when its newest summary is older
\* than 5 days; only a key with at most 100 summaries is tested for age, and
\* is removed when stale and left as it is when not; a key the pass has
\* dealt with is not touched again in that pass.
C19_SizeBeforeAge ==
    [][\A k \in DOMAIN ipScoring :
          LET scoring == ipScoring[k]
              n == Len(scoring)
          IN  /\ SweepTakes(k) =>
                   IF n > 100
                   THEN /\ k \in DOMAIN ipScoring'
                        /\ ipScoring'[k] = [i \in 1..100 |-> scoring[n - 100 + i]]
                   ELSE IF OlderThanFiveDays(scoring, now)
                        THEN k \notin DOMAIN ipScoring'
                        ELSE k \in DOMAIN ipScoring' /\ ipScoring'[k] = scoring
              /\ (sweepPc = "range" /\ sweepPc' = "range" /\ k \notin sweepTodo) =>
                   (k \in DOMAIN ipScoring' /\ ipScoring'[k] = scoring)]_vars

\* C19 witness: in one pass, after the clock jumped, the sweep removed the
\* stale key of exactly 100 summaries and cut the stale key of 101 summaries
\* to 100, which is still in the store.
C19_Witness ==
    /\ SweepExamined
    /\ sweepTodo = {}
    /\ sweepIp = "192.0.2.1"
    /\ Len(sweepScoring) = 101
    /\ OlderThanFiveDays(sweepScoring, now)
    /\ DOMAIN ipScoring = {"192.0.2.1"}
    /\ Len(ipScoring["192.0.2.1"]) = 100
(***************************************************************************)
(* Properties of the transactions (checked under SpecSession).             *)
(***************************************************************************)
\* the transaction was committed (tx-commit) or rolled back (tx-rollback)
Ended(tx) == tx.committed \/ tx.endTime # ZeroTime

\* C20: a transaction that was committed or rolled back keeps all its
\* fields in every later step of its session.
C20_EndedTransactionFrozen ==
    [][\A s \in Sessions :
          \A i \in DOMAIN sess[s].transactions :
              Ended(sess[s].transactions[i]) =>
                  /\ i \in DOMAIN sess'[s].transactions
                  /\ sess'[s].transactions[i] = sess[s].transactions[i]]_vars
(***************************************************************************)
(* Fatal errors of the handlers (checked under SpecSession).               *)
(***************************************************************************)
\* C21: no handler ends in a fatal error: neither program has panicked,
\* whatever events its sessions were handed.
C21_NoFatalError == ~crashed /\ ~crashedB

(***************************************************************************)
(* Properties of the history store, concluded (checked under SpecSweep).   *)
(***************************************************************************)
\* C22: in every reachable state every key of the store holds at least one
\* summary, so the newest summary the sweep reads exists.
C22_NoEmptyHistory ==
    \A k \in DOMAIN ipScoring : Len(ipScoring[k]) >= 1

\* C22 witness: the sweep has examined, and kept, a key that holds the one
\* summary a disconnect appended under a new address.
C22_Witness ==
    /\ SweepExamined
    /\ sweepIp \in DOMAIN ipScoring
    /\ Len(sweepScoring) = 1
    /\ Len(ipScoring[sweepIp]) = 1
    /\ \E s \in Sessions :
          /\ pc[s] = "done"
          /\ IPString(sess[s].addr) = sweepIp
=============================================================================
